---- MODULE Spec2Model ----
(***************************************************************************)
(* SqliteSaver, the SQLite checkpoint store of                             *)
(* langgraph/checkpoint/sqlite.py, as a state machine.                     *)
(*                                                                         *)
(* Strings that are ordered by the program (thread_ts, parent_ts) are      *)
(* sequences of code points, compared as SQLite compares TEXT (memcmp).    *)
(* An Optional[T] value is <<>> (None / SQL NULL) or <<x>>.                *)
(* A Python dict is a sequence of [k, v] pairs with distinct keys, in      *)
(* insertion order.                                                        *)
(***************************************************************************)
EXTENDS Integers, Sequences, FiniteSets, TLC

VARIABLES
    table,      \* the rows of table "checkpoints" as the connection sees them
    is_setup,   \* SqliteSaver.is_setup
    ddl_runs,   \* how often the CREATE TABLE script has been executed
    lock,       \* SqliteSaver.lock: 0 when free, else the caller holding it
    ret,        \* the last completed call: its operation, arguments, result
    hist,       \* history of the put calls (for stating the properties)
    nputs,      \* number of put calls made
    pc,         \* per caller: position inside its current call
    call,       \* per caller: the operation it is executing
    conn,       \* SqliteSaver.conn: "open" or "closed"
    gen         \* the generator of a list or search that the caller holds

vars == <<table, is_setup, ddl_runs, lock, ret, hist, nputs, pc, call, conn, gen>>

(***************************************************************************)
(* Bounds and input domains                                                *)
(***************************************************************************)
MaxPuts == 3

None == <<>>
Some(x) == <<x>>

\* thread_id values: Python str, so str(thread_id) leaves them as they are
ThreadIds == {"1", "2"}

\* checkpoint ids "", "1", "10", "2": "" < "1" < "10" < "2" as TEXT.  An id
\* is the sequence of its code points, "" the empty one; a value that may be
\* None (a locator's thread_ts, a row's parent_ts) is Some(id) or None, so
\* the id "" there is Some(IdEmpty) and differs from None.
IdEmpty == <<>>
Id1 == <<49>>
Id10 == <<49, 48>>
Id2 == <<50>>
Ids == {IdEmpty, Id1, Id10, Id2}

Callers == {1, 2}

(***************************************************************************)
(* Python / SQLite value helpers                                           *)
(***************************************************************************)
Min(a, b) == IF a < b THEN a ELSE b

\* a < b for TEXT values (SQLite BINARY collation; Python str ordering)
StrLess(a, b) ==
    \E i \in 1..(Min(Len(a), Len(b)) + 1) :
        /\ \A j \in 1..(i - 1) : a[j] = b[j]
        /\ \/ i > Len(a) /\ i <= Len(b)
           \/ i <= Len(a) /\ i <= Len(b) /\ a[i] < b[i]

\* truthiness of an Optional[str]: None and "" are falsy
TruthyStr(o) == o /= None /\ o[1] /= <<>>

\* truthiness of an Optional[int]: None and 0 are falsy
TruthyInt(o) == o /= None /\ o[1] /= 0

EmptyDict == <<>>
DictHas(d, k) == \E i \in 1..Len(d) : d[i].k = k
DictGet(d, k) == d[CHOOSE i \in 1..Len(d) : d[i].k = k].v

\* JSON / Python scalar values: null, a string, an integer.  A string is of
\* printable ASCII characters, newline, return, tab and form feed.
JNull == [kind |-> "null", s |-> "", n |-> 0]
JStr(s) == [kind |-> "str", s |-> s, n |-> 0]
JInt(n) == [kind |-> "int", s |-> "", n |-> n]
\* a float, by its value in tenths
JFloat(n) == [kind |-> "float", s |-> "", n |-> n]
\* a Python bool: an int that is 0 or 1
JBool(b) == [kind |-> "bool", s |-> "", n |-> IF b THEN 1 ELSE 0]
\* a list of values, a dict (a sequence of [k, v] pairs with distinct keys)
JList(items) == [kind |-> "list", s |-> "", n |-> 0, items |-> items]
JDict(items) == [kind |-> "dict", s |-> "", n |-> 0, items |-> items]
\* a str that holds JSON text, as the sequence of its tokens
JText(text) == [kind |-> "json_text", s |-> "", n |-> 0, text |-> text]

\* the character at place p of the string s, "" beyond its end
CharAt(s, p) == IF p >= 1 /\ p <= Len(s) THEN SubSeq(s, p, p) ELSE ""

\* the string s from place p on
StrFrom(s, p) == IF p > Len(s) THEN "" ELSE SubSeq(s, p, Len(s))

RECURSIVE CountChar(_, _)
\* how many times the character c stands in s
CountChar(s, c) ==
    IF s = "" THEN 0
    ELSE (IF Head(s) = c THEN 1 ELSE 0) + CountChar(Tail(s), c)

RECURSIVE SpanUntil(_, _)
\* the number of characters of s before the first one that is in stops
SpanUntil(s, stops) ==
    IF s = "" \/ Head(s) \in stops THEN 0 ELSE 1 + SpanUntil(Tail(s), stops)

RECURSIVE SpanOf(_, _)
\* the number of characters at the start of s that are all in chars
SpanOf(s, chars) ==
    IF s = "" \/ Head(s) \notin chars THEN 0 ELSE 1 + SpanOf(Tail(s), chars)

\* a character inside a JSON string literal: json.dumps writes a quote, a
\* backslash and a control character as an escape
EscapeChar(c) ==
    CASE c = "\"" -> "\\\""
      [] c = "\\" -> "\\\\"
      [] c = "\n" -> "\\n"
      [] c = "\r" -> "\\r"
      [] c = "\t" -> "\\t"
      [] c = "\f" -> "\\f"
      [] OTHER -> c

RECURSIVE EscapeStr(_)
\* the characters of s between the quotes of its JSON string literal
EscapeStr(s) == IF s = "" THEN "" ELSE EscapeChar(Head(s)) \o EscapeStr(Tail(s))

\* JSON text: a punctuation token, the token of a scalar
Punct(p) == [tok |-> p, v |-> JNull]
ScalarTok(x) == [tok |-> "scalar", v |-> x]

RECURSIVE JoinToks(_, _)
\* the token sequences parts, with sep between them
JoinToks(parts, sep) ==
    IF Len(parts) = 0 THEN <<>>
    ELSE IF Len(parts) = 1 THEN parts[1]
    ELSE parts[1] \o <<Punct(sep)>> \o JoinToks(Tail(parts), sep)

RECURSIVE JsonDumps(_, _, _)
\* json.dumps(v, separators=(item_sep, key_sep))
JsonDumps(v, item_sep, key_sep) ==
    CASE v.kind = "list" ->
            <<Punct("[")>>
            \o JoinToks([i \in 1..Len(v.items) |->
                            JsonDumps(v.items[i], item_sep, key_sep)], item_sep)
            \o <<Punct("]")>>
      [] v.kind = "dict" ->
            <<Punct("{")>>
            \o JoinToks([i \in 1..Len(v.items) |->
                            <<ScalarTok(JStr(v.items[i].k)), Punct(key_sep)>>
                            \o JsonDumps(v.items[i].v, item_sep, key_sep)],
                        item_sep)
            \o <<Punct("}")>>
      [] OTHER -> <<ScalarTok(v)>>

\* the characters of a scalar inside JSON text (json.dumps; SQLite's JSON
\* rendering of what json.dumps wrote): a string between quotes with its
\* escapes, a float with its sign, its integer part and one decimal
ScalarText(x) ==
    CASE x.kind = "null" -> "null"
      [] x.kind = "str" -> "\"" \o EscapeStr(x.s) \o "\""
      [] x.kind = "int" -> ToString(x.n)
      [] x.kind = "bool" -> IF x.n = 1 THEN "true" ELSE "false"
      [] x.kind = "float" ->
            IF x.n < 0
            THEN "-" \o ToString((-x.n) \div 10) \o "." \o ToString((-x.n) % 10)
            ELSE ToString(x.n \div 10) \o "." \o ToString(x.n % 10)

RECURSIVE TextOf(_)
\* the characters of JSON text given by its tokens
TextOf(toks) ==
    IF Len(toks) = 0 THEN ""
    ELSE (IF toks[1].tok = "scalar" THEN ScalarText(toks[1].v) ELSE toks[1].tok)
         \o TextOf(Tail(toks))

\* sqlite3 binding a Python value to a ? placeholder: None as NULL, a str as
\* TEXT, an int as INTEGER (a bool as 0 or 1), a float as REAL
SqlBind(v) ==
    CASE v.kind = "bool" -> JInt(v.n)
      [] v.kind = "json_text" -> JStr(TextOf(v.text))
      [] OTHER -> v

\* SQLite "=" on two values without affinity: NULL equals nothing, INTEGER
\* and REAL compare by their numeric value, TEXT by its characters, and a
\* number never equals TEXT
SqlNumber(x) == x.kind \in {"int", "float"}
Tenths(x) == IF x.kind = "int" THEN 10 * x.n ELSE x.n
SqlEq(x, y) ==
    \/ SqlNumber(x) /\ SqlNumber(y) /\ Tenths(x) = Tenths(y)
    \/ x.kind = "str" /\ y.kind = "str" /\ x.s = y.s

\* SQLite "IS": as "=", and NULL IS NULL
SqlIs(x, y) == (x.kind = "null" /\ y.kind = "null") \/ SqlEq(x, y)

(***************************************************************************)
(* The codec.  JsonPlusSerializer writes a dict as JSON text: bytes that   *)
(* start with "{" (123) and end with "}" (125); a pickle starts with 0x80  *)
(* (128) and ends with "." (46).  A byte string of the model is <<>>, a    *)
(* sequence of one or two bytes, or <<f, v, l>>: for f = 128 and l = 46    *)
(* the pickle of v, else the JSON text of v with the byte f before it when *)
(* f is not 123 and the byte l after it when l is not 125.  So <<123, 125>>*)
(* and <<123, <<>>, 125>> are both the two bytes of "{}", <<91, v, 93>> is *)
(* the JSON text of the array [v] and <<34, <<>>, 34>> that of the string  *)
(* "{}".                                                                   *)
(***************************************************************************)
DecodeError == [error |-> "DecodeError"]
UnpicklingError == [error |-> "UnpicklingError"]
Dumps(v) == <<123, v, 125>>

\* the bytes JSON takes as white space: tab, newline, return, space
JsonSpace == {9, 10, 13, 32}

\* the bytes "0" to "9"
DigitBytes == 48..57

\* JSON text of one or two bytes, read alike by json.loads and by the engine:
\* a number of one or two digits (no leading zero), a digit with white space
\* or a minus sign before it or white space after it, "", [] or {}.  Some of
\* its value, None for other bytes.
ShortJson(data) ==
    IF Len(data) = 1 /\ data[1] \in DigitBytes
    THEN Some(JInt(data[1] - 48))
    ELSE IF Len(data) /= 2 THEN None
    ELSE IF data[1] \in 49..57 /\ data[2] \in DigitBytes
    THEN Some(JInt(10 * (data[1] - 48) + (data[2] - 48)))
    ELSE IF data[1] \in JsonSpace /\ data[2] \in DigitBytes
    THEN Some(JInt(data[2] - 48))
    ELSE IF data[1] = 45 /\ data[2] \in DigitBytes
    THEN Some(JInt(0 - (data[2] - 48)))
    ELSE IF data[1] \in DigitBytes /\ data[2] \in JsonSpace
    THEN Some(JInt(data[1] - 48))
    ELSE IF data[1] = 34 /\ data[2] = 34 THEN Some(JStr(""))
    ELSE IF data[1] = 91 /\ data[2] = 93 THEN Some(JList(<<>>))
    ELSE IF data[1] = 123 /\ data[2] = 125 THEN Some(JDict(<<>>))
    ELSE None

\* two bytes that json.loads takes as UTF-16 because one of them is 0: a
\* digit and a zero byte, in either order
ShortUtf16(data) ==
    /\ Len(data) = 2
    /\ \/ data[1] = 0 /\ data[2] \in DigitBytes
       \/ data[1] \in DigitBytes /\ data[2] = 0

\* <<f, v, l>> is the JSON text of v with white space around it
FramedObject(data) ==
    /\ Len(data) = 3
    /\ data[1] \in {123} \cup JsonSpace
    /\ data[3] \in {125} \cup JsonSpace

\* <<f, v, l>> is the JSON text of the array [v]
FramedArray(data) == Len(data) = 3 /\ data[1] = 91 /\ data[3] = 93

\* <<f, v, l>> is the JSON text of a string: the text of v between two
\* quotes, for the v whose text holds no quote, the empty dict
FramedString(data) ==
    Len(data) = 3 /\ data[1] = 34 /\ data[3] = 34 /\ DOMAIN data[2] = {}

\* json.loads reads the bytes: JSON text, white space around it allowed
PrimaryOk(data) ==
    \/ FramedObject(data) \/ FramedArray(data) \/ FramedString(data)
    \/ ShortUtf16(data)
    \/ ShortJson(data) /= None
PickleOk(data) == Len(data) = 3 /\ data[1] = 128 /\ data[3] = 46

\* JsonPlusSerializer.loads: the value json.loads gives (a dict as its
\* pairs), or the error raised
PrimaryLoads(data) ==
    IF FramedObject(data) THEN data[2]
    ELSE IF FramedArray(data) THEN JList(<<data[2]>>)
    ELSE IF FramedString(data) THEN JStr("{}")
    ELSE IF ShortUtf16(data)
    THEN JInt((IF data[1] = 0 THEN data[2] ELSE data[1]) - 48)
    ELSE IF ShortJson(data) /= None
    THEN (IF ShortJson(data)[1].kind = "dict" THEN EmptyDict ELSE ShortJson(data)[1])
    ELSE DecodeError
PickleLoads(data) == IF PickleOk(data) THEN data[2] ELSE UnpicklingError

\* bytes.startswith, bytes.endswith
StartsWith(data, prefix) ==
    /\ Len(data) >= Len(prefix)
    /\ SubSeq(data, 1, Len(prefix)) = prefix
EndsWith(data, suffix) ==
    /\ Len(data) >= Len(suffix)
    /\ SubSeq(data, Len(data) - Len(suffix) + 1, Len(data)) = suffix

\* faulty variant: every payload is handed to pickle
LoadsPickleOnly(data) == PickleLoads(data)

\* faulty variant: the legacy path for every payload that starts with 0x80
LoadsStartOnly(data) ==
    IF StartsWith(data, <<128>>)
    THEN PickleLoads(data)
    ELSE PrimaryLoads(data)

\* JsonPlusSerializerCompat.loads: the value or the error raised
Loads(data) ==
    IF StartsWith(data, <<128>>) /\ EndsWith(data, <<46>>)
    THEN PickleLoads(data)
    ELSE PrimaryLoads(data)

\* whether JsonPlusSerializerCompat.loads raises on data
LoadsRaises(data) ==
    IF StartsWith(data, <<128>>) /\ EndsWith(data, <<46>>)
    THEN ~PickleOk(data)
    ELSE ~PrimaryOk(data)

(***************************************************************************)
(* The SQL engine on table "checkpoints"                                   *)
(***************************************************************************)
SameKey(r, q) == r.thread_id = q.thread_id /\ r.thread_ts = q.thread_ts

\* INSERT without the primary key's conflict resolution (faulty variant)
InsertKeepingOld(tbl, row) == tbl \cup {row}

\* REPLACE under a key of thread_id alone (faulty variant)
InsertReplacingThread(tbl, row) ==
    {r \in tbl : r.thread_id /= row.thread_id} \cup {row}

\* REPLACE under a key of thread_ts alone (faulty variant)
InsertReplacingId(tbl, row) ==
    {r \in tbl : r.thread_ts /= row.thread_ts} \cup {row}

\* INSERT OR REPLACE under PRIMARY KEY (thread_id, thread_ts)
InsertOrReplace(tbl, row) == {r \in tbl : ~SameKey(r, row)} \cup {row}

RECURSIVE Orders(_)
\* every order in which a cursor may deliver the rows of S
Orders(S) ==
    IF S = {} THEN {<<>>}
    ELSE UNION {{<<r>> \o s : s \in Orders(S \ {r})} : r \in S}

\* ORDER BY thread_ts ASC (faulty variant)
OrderByTsAsc(S) ==
    {s \in Orders(S) :
        \A i \in 1..(Len(s) - 1) : ~StrLess(s[i + 1].thread_ts, s[i].thread_ts)}

\* ORDER BY thread_ts DESC: rows with equal thread_ts come in any order
OrderByTsDesc(S) ==
    {s \in Orders(S) :
        \A i \in 1..(Len(s) - 1) : ~StrLess(s[i].thread_ts, s[i + 1].thread_ts)}

\* LIMIT k: a negative k is no limit
SqlLimit(s, k) == IF k < 0 THEN s ELSE SubSeq(s, 1, Min(k, Len(s)))

\* cursor.fetchone()
FetchOne(s) == IF Len(s) = 0 THEN None ELSE Some(s[1])

(***************************************************************************)
(* CheckpointTuple construction                                            *)
(***************************************************************************)
Config(tid, ts) == [thread_id |-> tid, thread_ts |-> ts]

\* a locator whose "configurable" has no thread_id key
NoThreadConfig == [thread_ts |-> None]
HasThreadId(config) == "thread_id" \in DOMAIN config

\* config["configurable"]["thread_id"] on a locator without the key
KeyError == [error |-> "KeyError"]
\* sqlite3.OperationalError and its kin, raised by a statement or the commit
OperationalError == [error |-> "OperationalError"]
\* sqlite3.ProgrammingError: the connection is used after its close()
ProgrammingError == [error |-> "ProgrammingError"]
\* x, a record, is an error and not a value
IsError(x) == "error" \in DOMAIN x

ParentConfig(tid, parent_ts) ==
    IF TruthyStr(parent_ts) THEN Some(Config(tid, parent_ts)) ELSE None

LoadMetadata(blob) == IF blob /= None THEN Loads(blob[1]) ELSE EmptyDict

CheckpointTuple(config, checkpoint, metadata, parent_config) ==
    [config |-> config, checkpoint |-> checkpoint,
     metadata |-> metadata, parent_config |-> parent_config]

\* the tuple get_tuple builds in its thread_ts branch: config as given
TupleOfExact(config, r) ==
    CheckpointTuple(config, Loads(r.checkpoint), LoadMetadata(r.metadata),
                    ParentConfig(config.thread_id, r.parent_ts))

\* whether building the tuple of row r raises in self.serde.loads, and the
\* error: the checkpoint is decoded first, the metadata if it is not NULL
RowRaises(r) ==
    \/ LoadsRaises(r.checkpoint)
    \/ r.metadata /= None /\ LoadsRaises(r.metadata[1])
RowError(r) ==
    IF LoadsRaises(r.checkpoint) THEN Loads(r.checkpoint) ELSE Loads(r.metadata[1])

\* the tuple built from a full row (get_tuple's latest branch, list, search)
TupleOfRow(r) ==
    CheckpointTuple(Config(r.thread_id, Some(r.thread_ts)),
                    Loads(r.checkpoint), LoadMetadata(r.metadata),
                    ParentConfig(r.thread_id, r.parent_ts))

(***************************************************************************)
(* get_tuple                                                               *)
(***************************************************************************)
\* SELECT ... WHERE thread_id = ? AND thread_ts = ?
SelectExact(tbl, tid, ts) ==
    Orders({r \in tbl : r.thread_id = tid /\ r.thread_ts = ts})

\* the same query without its thread_id condition (faulty variant)
SelectLatestAnyThread(tbl, tid) ==
    {SqlLimit(s, 1) : s \in OrderByTsDesc(tbl)}

\* the same query in ascending order (faulty variant)
SelectOldest(tbl, tid) ==
    {SqlLimit(s, 1) : s \in OrderByTsAsc({r \in tbl : r.thread_id = tid})}

\* SELECT ... WHERE thread_id = ? ORDER BY thread_ts DESC LIMIT 1
SelectLatest(tbl, tid) ==
    {SqlLimit(s, 1) : s \in OrderByTsDesc({r \in tbl : r.thread_id = tid})}

\* the values get_tuple(config) may return on table tbl: the branch is taken
\* by the truth value of config["configurable"].get("thread_ts"), and "" is
\* false as None is
GetTuple(tbl, config) ==
    IF ~HasThreadId(config) THEN {KeyError}
    ELSE IF TruthyStr(config.thread_ts)
    THEN {IF FetchOne(s) = None THEN None
          ELSE IF RowRaises(FetchOne(s)[1]) THEN RowError(FetchOne(s)[1])
          ELSE Some(TupleOfExact(config, FetchOne(s)[1])) :
             s \in SelectExact(tbl, config.thread_id, config.thread_ts[1])}
    ELSE {IF FetchOne(s) = None THEN None
          ELSE IF RowRaises(FetchOne(s)[1]) THEN RowError(FetchOne(s)[1])
          ELSE Some(TupleOfRow(FetchOne(s)[1])) :
             s \in SelectLatest(tbl, config.thread_id)}

(***************************************************************************)
(* put                                                                     *)
(***************************************************************************)
\* the row put writes
PutRow(config, checkpoint, metadata) ==
    [thread_id |-> config.thread_id,
     thread_ts |-> checkpoint.id,
     parent_ts |-> config.thread_ts,
     checkpoint |-> Dumps(checkpoint),
     metadata |-> Some(Dumps(metadata))]

PutResult(config, checkpoint) == Config(config.thread_id, Some(checkpoint.id))

(***************************************************************************)
(* list                                                                    *)
(***************************************************************************)
\* faulty variant: thread_ts <= ?
SqlTsLessEq(ts, param) == param /= None /\ ~StrLess(param[1], ts)

\* thread_ts < ? : a comparison with NULL is never true
SqlTsLess(ts, param) == param /= None /\ StrLess(ts, param[1])

\* the rows of list's query before ORDER BY and LIMIT
ListRows(tbl, config, before) ==
    {r \in tbl :
        /\ r.thread_id = config.thread_id
        /\ before = None \/ SqlTsLess(r.thread_ts, before[1].thread_ts)}

\* "if limit: query += LIMIT {limit}"
ApplyLimit(s, limit) == IF TruthyInt(limit) THEN SqlLimit(s, limit[1]) ELSE s

RECURSIVE TuplesOf(_)
\* "for ... in cur: yield CheckpointTuple(...)": the tuples yielded for the
\* rows s of the cursor; a row that does not decode ends the sequence with
\* the error raised
TuplesOf(s) ==
    IF Len(s) = 0 THEN <<>>
    ELSE IF RowRaises(s[1]) THEN <<RowError(s[1])>>
    ELSE <<TupleOfRow(s[1])>> \o TuplesOf(Tail(s))

\* the sequences list(config, before=before, limit=limit) may yield when it is
\* taken to its end on a table that does not change meanwhile
List(tbl, config, before, limit) ==
    IF ~HasThreadId(config) THEN {KeyError}
    ELSE {TuplesOf(ApplyLimit(s, limit)) :
             s \in OrderByTsDesc(ListRows(tbl, config, before))}

(***************************************************************************)
(* The query builder: a clause is a sequence of tokens                     *)
(***************************************************************************)
Tok(t, key, op) == [t |-> t, key |-> key, op |-> op]
TokWhere == Tok("WHERE", "", "")
TokAnd == Tok("AND", "", "")
TokJson(key, op) == Tok("json_extract", key, op)
TokBefore == Tok("thread_ts", "", "< ?")

\* faulty variant: json.dumps with its default separators ", " and ": "
WhereValueSpacedJson(query_value) ==
    IF query_value.kind = "null"
    THEN [op |-> "IS ?", value |-> JNull]
    ELSE IF query_value.kind \in {"str", "int", "bool", "float"}
    THEN [op |-> "= ?", value |-> query_value]
    ELSE [op |-> "= ?", value |-> JText(JsonDumps(query_value, ", ", ": "))]

\* _metadata_predicate._where_value: (operator, bound value).  A bool is an
\* int, so the isinstance(query_value, int) test takes it before the bool
\* branch and the bool itself is the value.
WhereValue(query_value) ==
    IF query_value.kind = "null"
    THEN [op |-> "IS ?", value |-> JNull]
    ELSE IF query_value.kind \in {"str", "int", "bool", "float"}
    THEN [op |-> "= ?", value |-> query_value]
    ELSE [op |-> "= ?", value |-> JText(JsonDumps(query_value, ",", ":"))]

RECURSIVE MetaPredLoop(_, _)
\* the for loop of _metadata_predicate over metadata_filter.items()
MetaPredLoop(items, i) ==
    IF i > Len(items)
    THEN [predicate |-> <<>>, param_values |-> <<>>]
    ELSE LET wv == WhereValue(items[i].v)
             rest == MetaPredLoop(items, i + 1)
         IN [predicate |-> <<TokJson(items[i].k, wv.op), TokAnd>> \o rest.predicate,
             param_values |-> <<wv.value>> \o rest.param_values]

\* _metadata_predicate: the trailing AND is cut off
MetadataPredicate(metadata_filter) ==
    LET acc == MetaPredLoop(metadata_filter, 1)
    IN [predicate |-> IF acc.predicate /= <<>>
                      THEN SubSeq(acc.predicate, 1, Len(acc.predicate) - 1)
                      ELSE acc.predicate,
        param_values |-> acc.param_values]

\* faulty variant: the before bound is left out of the clause
SearchWhereNoBefore(metadata_filter, before) ==
    LET mp == MetadataPredicate(metadata_filter)
    IN IF mp.predicate = <<>>
       THEN [where |-> <<>>, params |-> <<>>]
       ELSE [where |-> <<TokWhere>> \o mp.predicate, params |-> mp.param_values]

\* search_where
SearchWhere(metadata_filter, before) ==
    LET mp == MetadataPredicate(metadata_filter)
        w1 == IF mp.predicate /= <<>> THEN <<TokWhere>> \o mp.predicate
                                      ELSE <<TokWhere>>
        p1 == IF mp.predicate /= <<>> THEN mp.param_values ELSE <<>>
        w2 == IF before /= None
              THEN IF mp.predicate /= <<>> THEN w1 \o <<TokAnd, TokBefore>>
                                           ELSE w1 \o <<TokBefore>>
              ELSE w1
        p2 == IF before /= None THEN p1 \o <<before[1].thread_ts>> ELSE p1
    IN IF w2 = <<TokWhere>>
       THEN [where |-> <<>>, params |-> <<>>]
       ELSE [where |-> w2, params |-> p2]

\* the characters a piece of the clause stands for in the str that
\* search_where returns; the key is written into the path as it is
TokText(tok) ==
    CASE tok.t = "WHERE" -> "WHERE "
      [] tok.t = "AND" -> "AND "
      [] tok.t = "thread_ts" -> "thread_ts " \o tok.op \o " "
      [] tok.t = "json_extract" ->
            "json_extract(CAST(metadata AS TEXT), '$." \o tok.key \o "') "
            \o tok.op \o " "

RECURSIVE WhereText(_)
\* the str of a clause
WhereText(where) ==
    IF Len(where) = 0 THEN "" ELSE TokText(where[1]) \o WhereText(Tail(where))

(***************************************************************************)
(* search: the engine evaluates the clause on each row                     *)
(***************************************************************************)
\* the document the engine reads from CAST(metadata AS TEXT): SQLite reads
\* the text up to its first NUL byte and allows white space around the JSON
\* text, which may be an object, an array, a string or a number.  Some of
\* the document, None when the text is not JSON.
SqlJsonRoot(data) ==
    IF /\ Len(data) = 3
       /\ data[1] \in {123} \cup JsonSpace
       /\ data[3] \in {125, 0} \cup JsonSpace
    THEN Some(JDict(data[2]))
    ELSE IF FramedArray(data) THEN Some(JList(<<JDict(data[2])>>))
    ELSE IF FramedString(data) THEN Some(JStr("{}"))
    ELSE IF Len(data) = 2 /\ data[1] \in DigitBytes /\ data[2] = 0
    THEN Some(JInt(data[1] - 48))
    ELSE ShortJson(data)

\* CAST(metadata AS TEXT) is not JSON text: json_extract raises
\* OperationalError("malformed JSON")
MalformedJson(blob) == blob /= None /\ SqlJsonRoot(blob[1]) = None

Digits == {"0", "1", "2", "3", "4", "5", "6", "7", "8", "9"}

RECURSIVE NatOf(_)
\* the number a string of digits writes
NatOf(s) ==
    IF s = "" THEN 0
    ELSE 10 * NatOf(SubSeq(s, 1, Len(s) - 1))
         + (CHOOSE d \in 0..9 : ToString(d) = CharAt(s, Len(s)))

RECURSIVE JsonLookupStep(_, _)
\* json_extract walking the path from a node of the document: ".label" or
\* ."label" goes to the value an object holds under the label, "[N]" to
\* element N of an array, "[#-N]" to its N-th element from the end.  The
\* value the path ends on; JNull when a step finds nothing; OperationalError
\* ("JSON path error") when the walk comes to a step that is not well formed.
JsonLookupStep(node, path) ==
    IF path = "" THEN node
    ELSE IF Head(path) = "."
    THEN IF node.kind /= "dict" THEN JNull
         ELSE LET q == Tail(path)
                  quoted == CharAt(q, 1) = "\""
                  n == IF quoted THEN SpanUntil(Tail(q), {"\""})
                                 ELSE SpanUntil(q, {".", "["})
                  label == IF quoted THEN SubSeq(q, 2, n + 1) ELSE SubSeq(q, 1, n)
                  rest == IF quoted THEN StrFrom(q, n + 3) ELSE StrFrom(q, n + 1)
                  hits == {i \in 1..Len(node.items) :
                              EscapeStr(node.items[i].k) = label}
              IN IF quoted /\ n + 2 > Len(q) THEN OperationalError
                 ELSE IF ~quoted /\ n = 0 THEN OperationalError
                 ELSE IF hits = {} THEN JNull
                 ELSE JsonLookupStep(node.items[CHOOSE i \in hits : TRUE].v, rest)
    ELSE IF Head(path) = "["
    THEN LET d == SpanOf(Tail(path), Digits)
         IN IF d > 0 /\ CharAt(path, d + 2) = "]"
            THEN IF node.kind /= "list" THEN JNull
                 ELSE LET i == NatOf(SubSeq(path, 2, d + 1))
                      IN IF i < Len(node.items)
                         THEN JsonLookupStep(node.items[i + 1], StrFrom(path, d + 3))
                         ELSE JNull
            ELSE IF CharAt(path, 2) = "#"
            THEN IF node.kind /= "list" THEN JNull
                 ELSE LET minus == CharAt(path, 3) = "-" /\ CharAt(path, 4) \in Digits
                          e == IF minus THEN SpanOf(StrFrom(path, 4), Digits) ELSE 0
                          x == IF minus THEN NatOf(SubSeq(path, 4, e + 3)) ELSE 0
                          close == IF minus THEN e + 4 ELSE 3
                          i == Len(node.items) - x
                      IN IF x > Len(node.items) THEN JNull
                         ELSE IF CharAt(path, close) /= "]" THEN OperationalError
                         ELSE IF i < Len(node.items)
                         THEN JsonLookupStep(node.items[i + 1], StrFrom(path, close + 1))
                         ELSE JNull
            ELSE OperationalError
    ELSE OperationalError

\* characters that, outside a string literal, open nothing that could hold
\* an apostrophe (a comment, a quoted name) and end no statement
SqlPlain ==
    {"a", "b", "c", "d", "e", "f", "g", "h", "i", "j", "k", "l", "m", "n", "o",
     "p", "q", "r", "s", "t", "u", "v", "w", "x", "y", "z", "_", ".", " "}
    \cup Digits

RECURSIVE Doubled(_)
\* every apostrophe of s stands beside a second one: written between the
\* apostrophes of a string literal, s does not end the literal
Doubled(s) ==
    IF s = "" THEN TRUE
    ELSE IF Head(s) /= "'" THEN Doubled(Tail(s))
    ELSE CharAt(s, 2) = "'" /\ Doubled(StrFrom(s, 3))

RECURSIVE SqlLiteral(_)
\* the string that the literal with s between its apostrophes stands for:
\* two apostrophes stand for one.  For s that is Doubled.
SqlLiteral(s) ==
    CASE s = "" -> ""
      [] s /= "" /\ Head(s) /= "'" -> CharAt(s, 1) \o SqlLiteral(Tail(s))
      [] CharAt(s, 1) = "'" /\ CharAt(s, 2) = "'" -> "'" \o SqlLiteral(StrFrom(s, 3))

\* json_extract(CAST(metadata AS TEXT), '$.key'), the key written into the
\* literal of the path as it is: NULL for a NULL column, for a document that
\* is no object, for a path that finds nothing and for a JSON null; INTEGER 1
\* or 0 for true or false; the minified text of an array or object; the value
\* of a string or a number; or the error raised.  A key with a single
\* apostrophe ends the literal: with SqlPlain characters besides and an odd
\* number of apostrophes the statement cannot be prepared, and other such
\* keys make another expression of it and have no value here.
JsonExtract(blob, key) ==
    IF ~Doubled(key)
    THEN CASE /\ CountChar(key, "'") % 2 = 1
              /\ SpanOf(key, SqlPlain \cup {"'"}) = Len(key) -> OperationalError
    ELSE IF blob = None THEN JNull
    ELSE IF MalformedJson(blob) THEN OperationalError
    ELSE LET v == JsonLookupStep(SqlJsonRoot(blob[1])[1], "." \o SqlLiteral(key))
         IN CASE IsError(v) -> v
              [] v.kind = "bool" -> JInt(v.n)
              [] v.kind \in {"list", "dict"} ->
                    JStr(TextOf(JsonDumps(v, ",", ":")))
              [] OTHER -> v

IsPred(tok) == tok.t \in {"json_extract", "thread_ts"}

\* evaluating the predicate on row r raises
PredRaises(tok, r) ==
    tok.t = "json_extract" /\ IsError(JsonExtract(r.metadata, tok.key))

RECURSIVE KeysText(_)
\* the keys of the clause, one after the other
KeysText(where) ==
    IF Len(where) = 0 THEN "" ELSE where[1].key \o KeysText(Tail(where))

\* the other characters of a clause that stand outside its string literals
SqlClause ==
    {"A", "C", "D", "E", "H", "I", "N", "O", "R", "S", "T", "W", "X",
     "(", ")", ",", "=", "<"}

RECURSIVE CountPlaceholders(_, _)
\* the number of parameters SQLite finds in the statement text (what
\* cur.execute holds against the number of values bound): every ? outside a
\* string literal; quoted tells that text begins inside a literal.  For text
\* of SqlPlain and SqlClause characters outside its literals, where no ? is
\* followed by a digit, and whose last literal has its end.
CountPlaceholders(text, quoted) ==
    CASE text = "" /\ ~quoted -> 0
      [] text /= "" /\ Head(text) = "'" -> CountPlaceholders(Tail(text), ~quoted)
      [] text /= "" /\ Head(text) /= "'" /\ quoted ->
            CountPlaceholders(Tail(text), quoted)
      [] text /= "" /\ ~quoted /\ Head(text) = "?"
            /\ CharAt(text, 2) \notin Digits ->
            1 + CountPlaceholders(Tail(text), quoted)
      [] text /= "" /\ ~quoted /\ Head(text) \in SqlPlain \cup SqlClause ->
            CountPlaceholders(Tail(text), quoted)

\* cur.execute cannot prepare the statement (OperationalError): each key
\* stands in the statement between apostrophes, as '$.key'.  Two apostrophes
\* side by side in a key are one apostrophe of the literal; a single one
\* ends the literal.  With an odd number of apostrophes in the keys, and
\* SqlPlain characters besides, the last literal of the statement has no
\* end.  Keys with other apostrophes put SQL of their own into the
\* statement; they have no value here.
PrepareRaises(where) ==
    LET keys == KeysText(where)
    IN CASE \A i \in 1..Len(where) : Doubled(where[i].key) -> FALSE
         [] /\ CountChar(keys, "'") % 2 = 1
            /\ SpanOf(keys, SqlPlain \cup {"'"}) = Len(keys) -> TRUE

\* one predicate with its bound parameter, on a row on which it does not
\* raise
EvalPred(tok, param, r) ==
    IF tok.t = "thread_ts"
    THEN SqlTsLess(r.thread_ts, param)
    ELSE LET x == JsonExtract(r.metadata, tok.key)
         IN IF tok.op = "IS ?"
            THEN SqlIs(x, SqlBind(param))
            ELSE SqlEq(x, SqlBind(param))

\* the clause on row r raises: the predicates are evaluated from the left
\* and the first one that is false ends the evaluation
WhereRaises(where, params, r) ==
    LET preds == SelectSeq(where, IsPred)
    IN \E i \in 1..Len(preds) :
          /\ PredRaises(preds[i], r)
          /\ \A j \in 1..(i - 1) :
                ~PredRaises(preds[j], r) /\ EvalPred(preds[j], params[j], r)

\* the clause: its predicates, the i-th bound to the i-th parameter
EvalWhere(where, params, r) ==
    LET preds == SelectSeq(where, IsPred)
    IN /\ ~WhereRaises(where, params, r)
       /\ \A i \in 1..Len(preds) : EvalPred(preds[i], params[i], r)

\* the sequences search(metadata_filter, before=before, limit=limit) may
\* yield, or the error of its query
Search(tbl, metadata_filter, before, limit) ==
    LET w == SearchWhere(metadata_filter, before)
    IN IF PrepareRaises(w.where) \/ \E r \in tbl : WhereRaises(w.where, w.params, r)
       THEN {OperationalError}
       ELSE {TuplesOf(ApplyLimit(s, limit)) :
                s \in OrderByTsDesc({r \in tbl : EvalWhere(w.where, w.params, r)})}

(***************************************************************************)
(* list and search are generators: the call runs nothing, the first next() *)
(* runs setup and the query, and every next() takes one row from the       *)
(* cursor.  sqlite3 steps the statement once in execute and once more each *)
(* time a row is taken, so the cursor stands on the row after the one that *)
(* is yielded.  list walks the primary key index and sees the table as it  *)
(* is at each step; search sorts its rows at the first step.               *)
(***************************************************************************)
NoGen == [state |-> "none"]

\* the generator object that list(...) or search(...) returns
Created(op, config, filter, before, limit) ==
    [state |-> "created", op |-> op, config |-> config, filter |-> filter,
     before |-> before, limit |-> limit]

\* a generator after cur.execute: cur is the row the statement stands on,
\* rest the rows sorted for a search and not yet reached, left the number of
\* rows the LIMIT of a list lets the statement go on to (-1: any number)
Opened(g, cur, rest, left) ==
    [state |-> "open", op |-> g.op, config |-> g.config, filter |-> g.filter,
     before |-> g.before, limit |-> g.limit, cur |-> cur, rest |-> rest,
     left |-> left, yielded |-> <<>>, quiet |-> TRUE]

\* faulty variant: LIMIT added whenever a limit is given, also 0
LimitLeftAlways(limit) == IF limit /= None THEN limit[1] ELSE -1

\* "if limit: query += LIMIT {limit}": the number of rows the statement may
\* give; a negative number, as no LIMIT, is no bound
LimitLeft(limit) == IF TruthyInt(limit) THEN limit[1] ELSE -1

\* one step of list's statement: the row below pos in the index, or the
\* first row for pos = None
ListSeek(tbl, config, before, pos) ==
    {SqlLimit(s, 1) :
        s \in OrderByTsDesc({r \in ListRows(tbl, config, before) :
                                pos = None \/ StrLess(r.thread_ts, pos[1])})}

\* cur.execute(query, params) of the generator g: the opened generators it
\* may give, or the error raised
GenExecute(tbl, g) ==
    IF g.op = "list"
    THEN IF ~HasThreadId(g.config) THEN {KeyError}
         ELSE IF LimitLeft(g.limit) = 0 THEN {Opened(g, None, <<>>, 0)}
         ELSE {Opened(g, c, <<>>, IF LimitLeft(g.limit) > 0
                                  THEN LimitLeft(g.limit) - 1 ELSE -1) :
                  c \in ListSeek(tbl, g.config, g.before, None)}
    ELSE LET w == SearchWhere(g.filter, g.before)
         IN IF PrepareRaises(w.where)
                  \/ \E r \in tbl : WhereRaises(w.where, w.params, r)
            THEN {OperationalError}
            ELSE {Opened(g, FetchOne(s), IF Len(s) = 0 THEN s ELSE Tail(s), -1) :
                     s \in {ApplyLimit(o, g.limit) :
                               o \in OrderByTsDesc({r \in tbl :
                                        EvalWhere(w.where, w.params, r)})}}

\* the rows the statement of g may stand on after one more step
GenStep(tbl, g) ==
    IF g.op = "list"
    THEN IF g.left = 0 THEN {None}
         ELSE ListSeek(tbl, g.config, g.before, Some(g.cur[1].thread_ts))
    ELSE {FetchOne(g.rest)}

\* faulty variant: a row that does not decode is left out and the loop goes on
GenIterNextSkipping(tbl, g) ==
    IF g.cur = None
    THEN {[kind |-> "end", result |-> g.yielded]}
    ELSE {[kind |-> "yield",
           gen |-> [g EXCEPT !.cur = c,
                             !.rest = IF Len(@) = 0 THEN @ ELSE Tail(@),
                             !.left = IF @ > 0 THEN @ - 1 ELSE @,
                             !.yielded = IF RowRaises(g.cur[1]) THEN @
                                         ELSE @ \o <<TupleOfRow(g.cur[1])>>]] :
             c \in GenStep(tbl, g)}

\* one turn of "for ... in cur: yield CheckpointTuple(...)": the loop ends
\* when the statement has no row; else the row is taken, the statement
\* steps on, and the tuple is yielded or self.serde.loads raises
GenIterNext(tbl, g) ==
    IF g.cur = None
    THEN {[kind |-> "end", result |-> g.yielded]}
    ELSE IF RowRaises(g.cur[1])
    THEN {[kind |-> "end", result |-> g.yielded \o <<RowError(g.cur[1])>>]}
    ELSE {[kind |-> "yield",
           gen |-> [g EXCEPT !.cur = c,
                             !.rest = IF Len(@) = 0 THEN @ ELSE Tail(@),
                             !.left = IF @ > 0 THEN @ - 1 ELSE @,
                             !.yielded = @ \o <<TupleOfRow(g.cur[1])>>]] :
             c \in GenStep(tbl, g)}

\* next(g): the first one runs the query before it takes a row; a sequence
\* that ends with an error has the error as its last element
GenNextOutcomes(tbl, g) ==
    IF g.state = "created"
    THEN UNION {IF IsError(o) THEN {[kind |-> "end", result |-> <<o>>]}
                ELSE GenIterNext(tbl, o) : o \in GenExecute(tbl, g)}
    ELSE GenIterNext(tbl, g)

\* a put while the generator is open
Disturbed(g) == IF g.state = "open" THEN [g EXCEPT !.quiet = FALSE] ELSE g

\* the record of a generator that has ended: what it yielded, the error that
\* ended it if any, and whether no put ran while it was open
GenRet(g, result, quiet) ==
    IF g.op = "list"
    THEN [op |-> "list", config |-> g.config, before |-> g.before,
          limit |-> g.limit, result |-> result, quiet |-> quiet]
    ELSE [op |-> "search", filter |-> g.filter, before |-> g.before,
          limit |-> g.limit, result |-> result, quiet |-> quiet]

(***************************************************************************)
(* State machine: one caller at a time; put, get_tuple and setup run to    *)
(* completion, a generator runs from one next() to the next                *)
(***************************************************************************)
NoPuts == [last |-> [t \in ThreadIds |-> None],
           recent |-> None,
           mono |-> [t \in ThreadIds |-> TRUE],
           replaced |-> FALSE]

\* __init__
Init ==
    /\ table = {}
    /\ is_setup = FALSE
    /\ ddl_runs = 0
    /\ lock = 0
    /\ ret = [op |-> "none"]
    /\ hist = NoPuts
    /\ nputs = 0
    /\ pc = [c \in Callers |-> "idle"]
    /\ call = [c \in Callers |-> [op |-> "none"]]
    /\ conn = "open"
    /\ gen = NoGen

\* setup(), run without interruption
RunSetup ==
    /\ is_setup' = TRUE
    /\ ddl_runs' = IF is_setup THEN ddl_runs ELSE ddl_runs + 1

\* the put calls so far, with this one added
Recorded(config, checkpoint, metadata) ==
    LET t == config.thread_id
        row == PutRow(config, checkpoint, metadata)
    IN [last |-> [hist.last EXCEPT ![t] =
                     Some([config |-> config, checkpoint |-> checkpoint,
                           metadata |-> metadata,
                           result |-> PutResult(config, checkpoint)])],
        recent |-> Some(t),
        mono |-> [hist.mono EXCEPT ![t] =
                     /\ hist.mono[t]
                     /\ \/ hist.last[t] = None
                        \/ StrLess(hist.last[t][1].checkpoint.id, checkpoint.id)],
        replaced |-> \E r \in table : SameKey(r, row) /\ r /= row]

\* put(config, checkpoint, metadata): what the call does to the store.  On a
\* closed connection self.cursor() raises before the statement is built.
PutCall(config, checkpoint, metadata) ==
    /\ nputs < MaxPuts
    /\ lock = 0
    /\ nputs' = nputs + 1
    /\ IF conn = "open"
       THEN /\ RunSetup
            /\ table' = IF HasThreadId(config)
                        THEN InsertOrReplace(table,
                                             PutRow(config, checkpoint, metadata))
                        ELSE table
            /\ ret' = [op |-> "put", config |-> config, checkpoint |-> checkpoint,
                       metadata |-> metadata,
                       result |-> IF HasThreadId(config)
                                  THEN PutResult(config, checkpoint)
                                  ELSE KeyError]
            /\ gen' = Disturbed(gen)
       ELSE /\ ret' = [op |-> "put", config |-> config, checkpoint |-> checkpoint,
                       metadata |-> metadata, result |-> ProgrammingError]
            /\ UNCHANGED <<table, is_setup, ddl_runs, gen>>
    /\ UNCHANGED <<lock, pc, call, conn>>

\* put, with the call added to the history
Put(config, checkpoint, metadata) ==
    /\ PutCall(config, checkpoint, metadata)
    /\ hist' = IF conn = "open" /\ HasThreadId(config)
               THEN Recorded(config, checkpoint, metadata)
               ELSE hist

\* put, where no property reads the history
PutOnly(config, checkpoint, metadata) ==
    /\ PutCall(config, checkpoint, metadata)
    /\ UNCHANGED hist

\* get_tuple(config); on a closed connection self.cursor() raises
Get(config) ==
    /\ IF conn = "open"
       THEN /\ RunSetup
            /\ \E res \in GetTuple(table, config) :
                  ret' = [op |-> "get", config |-> config, result |-> res]
       ELSE /\ ret' = [op |-> "get", config |-> config, result |-> ProgrammingError]
            /\ UNCHANGED <<is_setup, ddl_runs>>
    /\ UNCHANGED <<table, lock, hist, nputs, pc, call, conn, gen>>

\* list(config, before=before, limit=limit): the generator is made, nothing
\* runs; a generator the caller held is dropped
ListCall(config, before, limit) ==
    /\ gen' = Created("list", config, EmptyDict, before, limit)
    /\ UNCHANGED <<table, is_setup, ddl_runs, lock, ret, hist, nputs, pc, call, conn>>

\* search(metadata_filter, before=before, limit=limit): the same
SearchCall(metadata_filter, before, limit) ==
    /\ gen' = Created("search", NoThreadConfig, metadata_filter, before, limit)
    /\ UNCHANGED <<table, is_setup, ddl_runs, lock, ret, hist, nputs, pc, call, conn>>

\* next(g) on the generator of a list or search: it yields a tuple, or it ends
\* (StopIteration or an exception) and what it gave is recorded.  On a closed
\* connection self.cursor(), or the cursor asked for its next row, raises.
GenNext ==
    /\ gen.state \in {"created", "open"}
    /\ IF conn = "open"
       THEN /\ IF gen.state = "created" THEN RunSetup
               ELSE UNCHANGED <<is_setup, ddl_runs>>
            /\ \E o \in GenNextOutcomes(table, gen) :
                  IF o.kind = "end"
                  THEN /\ gen' = NoGen
                       /\ ret' = GenRet(gen, o.result,
                                        IF gen.state = "open" THEN gen.quiet
                                        ELSE TRUE)
                  ELSE gen' = o.gen /\ UNCHANGED ret
       ELSE /\ gen' = NoGen
            /\ ret' = IF gen.state = "open"
                      THEN GenRet(gen, gen.yielded \o <<ProgrammingError>>, gen.quiet)
                      ELSE GenRet(gen, <<ProgrammingError>>, TRUE)
            /\ UNCHANGED <<is_setup, ddl_runs>>
    /\ UNCHANGED <<table, lock, hist, nputs, pc, call, conn>>

\* setup(), called directly; with is_setup set it returns at once, else it
\* runs the script, which raises on a closed connection
Setup ==
    /\ IF conn = "open" \/ is_setup
       THEN RunSetup /\ ret' = [op |-> "setup"]
       ELSE /\ ret' = [op |-> "setup", result |-> ProgrammingError]
            /\ UNCHANGED <<is_setup, ddl_runs>>
    /\ UNCHANGED <<table, lock, hist, nputs, pc, call, conn, gen>>

(***************************************************************************)
(* Spec: put, get_tuple, setup                                             *)
(***************************************************************************)
MetaInput == <<[k |-> "source", v |-> JStr("input")]>>

\* locators of the puts to thread "1": no parent, the parent "", the parent "1"
PutConfigs == {Config("1", p) : p \in {None, Some(IdEmpty), Some(Id1)}}
\* what is stored with a checkpoint id: (data of the checkpoint, metadata)
Payloads == {<<"x", EmptyDict>>, <<"y", MetaInput>>}
GetConfigs == {Config(t, ts) : t \in ThreadIds, ts \in {None} \cup {Some(i) : i \in Ids}}
ThreadConfigs == {Config(t, None) : t \in ThreadIds}
\* (config, checkpoint id, payload) of the puts: thread "1" with every locator
\* and id, and with either payload where it has no parent; thread "2" beside it
PutArgs ==
    {<<config, i, <<"x", EmptyDict>>>> : config \in PutConfigs, i \in Ids}
    \cup {<<Config("1", None), i, <<"y", MetaInput>>>> : i \in Ids}
    \cup {<<Config("2", None), i, <<"x", EmptyDict>>>> : i \in {Id1, Id2}}

Next ==
    \/ \E a \in PutArgs : Put(a[1], [id |-> a[2], data |-> a[3][1]], a[3][2])
    \/ \E config \in GetConfigs : Get(config)
    \/ Setup

Spec == Init /\ [][Next]_vars

(***************************************************************************)
(* Properties of put and get_tuple (under Spec)                            *)
(***************************************************************************)
\* the most recent put call, if any
LastPut == IF hist.recent = None THEN None ELSE hist.last[hist.recent[1]]

ThreadRows(t) == {r \in table : r.thread_id = t}

\* no record of thread t has a checkpoint id greater than id
IsGreatest(t, id) == \A r \in ThreadRows(t) : ~StrLess(id, r.thread_ts)

\* get_tuple({thread_id}) was called on the thread of the most recent put
GotLatestOfLastPut ==
    /\ ret.op = "get"
    /\ LastPut /= None
    /\ ret.config = Config(LastPut[1].config.thread_id, None)

\* C1 as stated: after put({thread_id}, checkpoint, metadata), get({thread_id})
\* returns a tuple whose checkpoint is the checkpoint that was put, for every
\* thread_id and checkpoint.
C1_PutThenGetAnyCheckpoint ==
    GotLatestOfLastPut =>
        /\ ret.result /= None
        /\ ret.result[1].checkpoint = LastPut[1].checkpoint

\* C1 amended: after put({thread_id}, checkpoint, metadata) of a checkpoint
\* whose id is not smaller than any checkpoint id stored for that thread,
\* get({thread_id}) returns a tuple whose checkpoint is the checkpoint put.
C1_PutThenGetLatest ==
    (/\ GotLatestOfLastPut
     /\ IsGreatest(LastPut[1].config.thread_id, LastPut[1].checkpoint.id)) =>
        /\ ret.result /= None
        /\ ret.result[1].checkpoint = LastPut[1].checkpoint

C1_Witness ==
    /\ GotLatestOfLastPut
    /\ Cardinality(ThreadRows(ret.config.thread_id)) >= 2
    /\ IsGreatest(LastPut[1].config.thread_id, LastPut[1].checkpoint.id)
    /\ ret.result /= None
    /\ ret.result[1].checkpoint = LastPut[1].checkpoint

\* C2: when the puts to a thread came with strictly increasing checkpoint ids,
\* get({thread_id}) returns the checkpoint of the last of them, whatever was
\* put to other threads in between.
C2_IncreasingPutsGetLast ==
    \A t \in ThreadIds :
        (/\ ret.op = "get"
         /\ ret.config = Config(t, None)
         /\ hist.mono[t]
         /\ hist.last[t] /= None) =>
            /\ ret.result /= None
            /\ ret.result[1].checkpoint = hist.last[t][1].checkpoint

C2_Witness ==
    /\ ret.op = "get"
    /\ ret.config = Config("1", None)
    /\ hist.mono["1"]
    /\ Cardinality(ThreadRows("1")) = 2
    /\ hist.recent = Some("2")
    /\ ret.result /= None
    /\ ret.result[1].checkpoint = hist.last["1"][1].checkpoint

\* what reading back the parent pointer of a put gives
ExpectedParent(p) ==
    IF p.config.thread_ts /= None
    THEN Some(Config(p.config.thread_id, p.config.thread_ts))
    ELSE None

\* C3: at most one record per (thread_id, checkpoint_id); a put replaces the
\* record of its key wholesale, and a list of the thread taken after it yields
\* exactly one tuple for that key, carrying checkpoint, metadata and parent of
\* that put.
C3_OneRecordPerKey ==
    /\ \A r \in table, q \in table : SameKey(r, q) => r = q
    /\ (ret.op = "list" /\ ret.quiet /\ LastPut /= None
        /\ ret.config.thread_id = LastPut[1].config.thread_id) =>
          LET p == LastPut[1]
              hits == {i \in 1..Len(ret.result) :
                          ret.result[i].config = p.result}
          IN /\ Cardinality(hits) = 1
             /\ \A i \in hits :
                   /\ ret.result[i].checkpoint = p.checkpoint
                   /\ ret.result[i].metadata = p.metadata
                   /\ ret.result[i].parent_config = ExpectedParent(p)

C3_Witness ==
    /\ ret.op = "list" /\ ret.quiet
    /\ LastPut /= None
    /\ ret.config.thread_id = LastPut[1].config.thread_id
    /\ hist.replaced
    /\ Len(ret.result) = 2

\* C4 (refuted): put writes the record keyed (locator.thread_id,
\* checkpoint.id) with parent pointer locator.checkpoint_id; read back,
\* parent_config is {thread_id, checkpoint_id: parent} for a non-null parent
\* and absent for a null one; get({thread}) after put({thread, checkpoint_id
\* a}, b) returns b with parent_config.checkpoint_id = a.  The parent "" is
\* stored and is not null, and it is read back as an absent parent_config.
C4_ParentPointer ==
    /\ ret.op = "put" =>
          \E r \in table :
              /\ r.thread_id = ret.config.thread_id
              /\ r.thread_ts = ret.checkpoint.id
              /\ r.parent_ts = ret.config.thread_ts
    /\ (ret.op = "get" /\ LastPut /= None /\ ret.config = LastPut[1].result) =>
          /\ ret.result /= None
          /\ ret.result[1].parent_config = ExpectedParent(LastPut[1])
    /\ (/\ GotLatestOfLastPut
        /\ IsGreatest(LastPut[1].config.thread_id, LastPut[1].checkpoint.id)) =>
          /\ ret.result /= None
          /\ ret.result[1].checkpoint.id = LastPut[1].checkpoint.id
          /\ ret.result[1].parent_config = ExpectedParent(LastPut[1])

\* the tuple that stands for record r
RecordTuple(r) ==
    [config |-> Config(r.thread_id, Some(r.thread_ts)),
     checkpoint |-> r.checkpoint[2],
     metadata |-> r.metadata[1][2],
     parent_config |-> IF r.parent_ts = None THEN None
                       ELSE Some(Config(r.thread_id, r.parent_ts))]

\* the tuple x is the tuple of record r: its locator, checkpoint and metadata
\* (how the parent pointer is read back is the matter of C4)
IsTupleOf(x, r) ==
    /\ x.config = Config(r.thread_id, Some(r.thread_ts))
    /\ x.checkpoint = r.checkpoint[2]
    /\ x.metadata = r.metadata[1][2]

\* C5 (refuted): get with a checkpoint_id returns exactly the record of that
\* key, and None when there is none; without one it returns the thread's
\* record with the greatest checkpoint_id, or None for a thread without
\* records; get of the locator a put returned gives the checkpoint that put
\* wrote.  With the checkpoint_id "" get returns the thread's latest record.
C5_GetExactOrLatest ==
    ret.op = "get" =>
        LET t == ret.config.thread_id
        IN /\ ret.config.thread_ts /= None =>
                LET hit == {r \in table : r.thread_id = t
                                          /\ r.thread_ts = ret.config.thread_ts[1]}
                IN /\ hit = {} => ret.result = None
                   /\ \A r \in hit :
                         ret.result /= None /\ IsTupleOf(ret.result[1], r)
           /\ ret.config.thread_ts = None =>
                /\ ThreadRows(t) = {} => ret.result = None
                /\ ThreadRows(t) /= {} =>
                      \E r \in ThreadRows(t) :
                          /\ IsGreatest(t, r.thread_ts)
                          /\ ret.result /= None /\ IsTupleOf(ret.result[1], r)
           /\ (LastPut /= None /\ ret.config = LastPut[1].result) =>
                /\ ret.result /= None
                /\ ret.result[1].checkpoint = LastPut[1].checkpoint

(***************************************************************************)
(* SpecList: put and list with before and limit                            *)
(***************************************************************************)
Befores ==
    {None} \cup {Some([thread_ts |-> Some(i)]) : i \in {IdEmpty, Id10, Id2}}
Limits == {None, Some(0), Some(1), Some(2), Some(-1)}

\* (thread, checkpoint id) of the puts: thread "1" with every id, thread "2"
\* beside it
ListPuts == {<<"1", i>> : i \in Ids} \cup {<<"2", Id1>>}

NextList ==
    \/ \E a \in ListPuts :
          PutOnly(Config(a[1], None), [id |-> a[2], data |-> "x"], EmptyDict)
    \/ \E config \in ThreadConfigs, before \in Befores, limit \in Limits :
          ListCall(config, before, limit)
    \/ GenNext

SpecList == Init /\ [][NextList]_vars

\* the tuples of a result, as a set
Yielded(res) == {res[i] : i \in 1..Len(res)}

\* a result in strictly descending checkpoint_id order
StrictlyDescending(res) ==
    \A i \in 1..(Len(res) - 1) :
        StrLess(res[i + 1].config.thread_ts[1], res[i].config.thread_ts[1])

\* C6: list({thread_id}), taken to its end while no put runs, yields every
\* record of the thread and no record of another thread, each exactly once,
\* in strictly descending checkpoint_id order.
C6_ListWholeThread ==
    (ret.op = "list" /\ ret.quiet /\ ret.before = None /\ ret.limit = None) =>
        LET t == ret.config.thread_id
        IN /\ Yielded(ret.result) = {RecordTuple(r) : r \in ThreadRows(t)}
           /\ Len(ret.result) = Cardinality(ThreadRows(t))
           /\ \A i \in 1..Len(ret.result) : ret.result[i].config.thread_id = t
           /\ StrictlyDescending(ret.result)

C6_Witness ==
    /\ ret.op = "list" /\ ret.quiet /\ ret.before = None /\ ret.limit = None
    /\ ret.config.thread_id = "1"
    /\ Len(ret.result) = 2
    /\ ThreadRows("2") /= {}

\* C7: list({thread_id}, before=X, limit=K), taken to its end while no put
\* runs, yields exactly the first K (all for K absent, zero or negative) of
\* the descending sequence of the thread's records with checkpoint_id <
\* X.checkpoint_id (all records without before); a list during which puts run
\* still yields at most K tuples for positive K, in strictly descending
\* order, and none with checkpoint_id >= X.checkpoint_id.
C7_ListBeforeLimit ==
    /\ ret.op = "list" =>
          /\ StrictlyDescending(ret.result)
          /\ (ret.limit /= None /\ ret.limit[1] > 0) =>
                Len(ret.result) <= ret.limit[1]
          /\ \A i \in 1..Len(ret.result) :
                /\ ret.result[i].config.thread_id = ret.config.thread_id
                /\ ret.before /= None =>
                      StrLess(ret.result[i].config.thread_ts[1],
                              ret.before[1].thread_ts[1])
    /\ (ret.op = "list" /\ ret.quiet) =>
        LET t == ret.config.thread_id
            S == {r \in ThreadRows(t) :
                     \/ ret.before = None
                     \/ StrLess(r.thread_ts, ret.before[1].thread_ts[1])}
            all == ret.limit = None \/ ret.limit[1] <= 0
        IN /\ ret.result \in List(table, ret.config, ret.before, ret.limit)
           /\ Yielded(ret.result) \subseteq {RecordTuple(r) : r \in S}
           /\ Len(ret.result) =
                 IF all THEN Cardinality(S) ELSE Min(ret.limit[1], Cardinality(S))
           /\ \A r \in S :
                 RecordTuple(r) \notin Yielded(ret.result) =>
                    \A i \in 1..Len(ret.result) :
                        StrLess(r.thread_ts, ret.result[i].config.thread_ts[1])

\* limit 1 cuts a two-record answer, before "2" keeps record "2" out
C7_Witness ==
    /\ ret.op = "list" /\ ret.quiet
    /\ ret.before = Some([thread_ts |-> Some(Id2)])
    /\ ret.limit = Some(1)
    /\ Cardinality(ThreadRows(ret.config.thread_id)) = 3
    /\ Len(ret.result) = 1
    /\ ret.result[1].config.thread_ts = Some(Id10)

(***************************************************************************)
(* SpecMatch: put with metadata of every kind, and search by a filter      *)
(***************************************************************************)
MetaNull == <<[k |-> "source", v |-> JNull]>>
MetaInputStep == <<[k |-> "source", v |-> JStr("input")], [k |-> "step", v |-> JInt(1)]>>
MetaLoopStep == <<[k |-> "source", v |-> JStr("loop")], [k |-> "step", v |-> JInt(1)]>>
MetaStepTrue == <<[k |-> "step", v |-> JBool(TRUE)]>>
MetaStepFloat == <<[k |-> "step", v |-> JFloat(10)]>>
Tags == JList(<<JStr("a"), JInt(1)>>)
Pairs == JDict(<<[k |-> "a", v |-> JInt(1)], [k |-> "b", v |-> JInt(2)]>>)
PairsSwapped == JDict(<<[k |-> "b", v |-> JInt(2)], [k |-> "a", v |-> JInt(1)]>>)
MetaTags == <<[k |-> "source", v |-> Tags]>>
MetaTagsText == <<[k |-> "source", v |-> JStr("[\"a\",1]")]>>
MetaPairs == <<[k |-> "source", v |-> Pairs]>>
FilterStep == <<[k |-> "step", v |-> JInt(1)]>>
FilterPairsSwapped == <<[k |-> "source", v |-> PairsSwapped]>>
\* {"a": {"b": 1}, "l": [5, 6]}
MetaNested ==
    <<[k |-> "a", v |-> JDict(<<[k |-> "b", v |-> JInt(1)]>>)],
      [k |-> "l", v |-> JList(<<JInt(5), JInt(6)>>)]>>
\* {"a.b": 1, "a'b": 1}
MetaNames == <<[k |-> "a.b", v |-> JInt(1)], [k |-> "a'b", v |-> JInt(1)]>>
\* {"source": ["a", "b"], "step": [-0.5]}
MetaTexts ==
    <<[k |-> "source", v |-> JList(<<JStr("a"), JStr("b")>>)],
      [k |-> "step", v |-> JList(<<JFloat(-5)>>)]>>
FilterDotted == <<[k |-> "a.b", v |-> JInt(1)]>>
FilterIndex == <<[k |-> "l[0]", v |-> JInt(5)]>>
FilterApostrophe == <<[k |-> "a'b", v |-> JInt(1)]>>
FilterEmptyKey == <<[k |-> "", v |-> JInt(1)]>>
\* {"source": ['a","b']}: a list of one string
FilterQuoted == <<[k |-> "source", v |-> JList(<<JStr("a\",\"b")>>)]>>
FilterFloatText == <<[k |-> "step", v |-> JStr("[-0.5]")]>>

\* (thread_id, checkpoint id, metadata) of the puts: a document with source
\* "input" on each thread, the others under one key each
MatchPuts ==
    {<<"1", Id1, MetaInput>>, <<"2", Id2, MetaInput>>}
    \cup {<<"1", Id1, MetaNull>>, <<"2", Id1, EmptyDict>>,
          <<"2", Id2, MetaLoopStep>>, <<"1", Id2, MetaStepTrue>>,
          <<"2", Id1, MetaStepFloat>>, <<"1", Id1, MetaTags>>,
          <<"2", Id2, MetaTagsText>>, <<"1", Id2, MetaPairs>>,
          <<"1", Id1, MetaNested>>, <<"2", Id1, MetaNames>>,
          <<"2", Id2, MetaTexts>>}

MatchFilters ==
    {MetaInput, MetaNull, MetaInputStep, FilterStep, MetaStepTrue, MetaStepFloat,
     MetaTags, MetaTagsText, MetaPairs, FilterPairsSwapped,
     FilterDotted, FilterIndex, FilterApostrophe, FilterEmptyKey, FilterQuoted,
     FilterFloatText}

NextMatch ==
    \/ \E a \in MatchPuts :
          PutOnly(Config(a[1], None), [id |-> a[2], data |-> "x"], a[3])
    \/ \E f \in MatchFilters : SearchCall(f, None, None)
    \/ GenNext

SpecMatch == Init /\ [][NextMatch]_vars

\* the metadata document stored in record r
MetadataOf(r) == r.metadata[1][2]

\* a == b in Python: numbers and booleans by their numeric value, a list
\* element by element, a dict whatever the order of its keys
PyNumber(x) == x.kind \in {"bool", "int", "float"}
PyScalarEq(a, b) ==
    IF PyNumber(a) /\ PyNumber(b)
    THEN (IF a.kind = "float" THEN a.n ELSE 10 * a.n)
            = (IF b.kind = "float" THEN b.n ELSE 10 * b.n)
    ELSE a.kind = b.kind /\ a.s = b.s
RECURSIVE PyEq(_, _)
PyEq(a, b) ==
    IF a.kind = "list" /\ b.kind = "list"
    THEN /\ Len(a.items) = Len(b.items)
         /\ \A i \in 1..Len(a.items) : PyEq(a.items[i], b.items[i])
    ELSE IF a.kind = "dict" /\ b.kind = "dict"
    THEN /\ Len(a.items) = Len(b.items)
         /\ \A i \in 1..Len(a.items) :
               \E j \in 1..Len(b.items) :
                   /\ a.items[i].k = b.items[j].k
                   /\ PyEq(a.items[i].v, b.items[j].v)
    ELSE a.kind \notin {"list", "dict"} /\ b.kind \notin {"list", "dict"}
         /\ PyScalarEq(a, b)

\* the metadata document holds every key of the filter with the filter's value
HoldsEveryPair(md, f) ==
    \A i \in 1..Len(f) : DictHas(md, f[i].k) /\ PyEq(DictGet(md, f[i].k), f[i].v)

\* C8 (refuted): search(filter) returns a record if and only if its metadata
\* holds every filter key with the filter's value, over all threads.  The
\* filter keys are written into the SQL text: search({"a'b": 1}) raises
\* OperationalError on a store whose record holds "a'b" with 1.
C8_SearchHoldsEveryPair ==
    (ret.op = "search" /\ ret.quiet /\ ret.before = None /\ ret.limit = None) =>
        /\ Yielded(ret.result) =
              {RecordTuple(r) : r \in {q \in table : HoldsEveryPair(MetadataOf(q), ret.filter)}}
        /\ Len(ret.result) = Cardinality(Yielded(ret.result))

(***************************************************************************)
(* SpecSearch: put on two threads, and search with before and limit        *)
(***************************************************************************)
SearchIds == {Id1, Id2}
SearchMetadatas == {EmptyDict, MetaInput}
SearchBefores == {None} \cup {Some([thread_ts |-> Some(i)]) : i \in SearchIds}
SearchLimits == {None, Some(1), Some(2)}

\* (metadata_filter, before, limit): the empty filter with every before and
\* limit, and a filter alone and with both
SearchArgs ==
    {<<EmptyDict, b, l>> : b \in SearchBefores, l \in SearchLimits}
    \cup {<<MetaInput, None, None>>,
          <<MetaInput, Some([thread_ts |-> Some(Id2)]), Some(1)>>}

NextSearch ==
    \/ \E config \in ThreadConfigs, i \in SearchIds, metadata \in SearchMetadatas :
          PutOnly(config, [id |-> i, data |-> "x"], metadata)
    \/ \E a \in SearchArgs : SearchCall(a[1], a[2], a[3])
    \/ GenNext

SpecSearch == Init /\ [][NextSearch]_vars

\* a result in descending checkpoint_id order, equal ids in any order
Descending(res) ==
    \A i \in 1..(Len(res) - 1) :
        ~StrLess(res[i].config.thread_ts[1], res[i + 1].config.thread_ts[1])

\* C9: search with an empty filter returns the records of every thread in
\* descending checkpoint_id order, all of them without before and limit, the
\* first K of that order for a positive limit K, and only records with
\* checkpoint_id < X.checkpoint_id for before = X.
C9_SearchEmptyFilter ==
    (ret.op = "search" /\ ret.quiet /\ ret.filter = EmptyDict) =>
        LET S == {r \in table :
                     \/ ret.before = None
                     \/ StrLess(r.thread_ts, ret.before[1].thread_ts[1])}
        IN /\ ret.result \in Search(table, ret.filter, ret.before, ret.limit)
           /\ Descending(ret.result)
           /\ Yielded(ret.result) \subseteq {RecordTuple(r) : r \in S}
           /\ Len(ret.result) = Cardinality(Yielded(ret.result))
           /\ Len(ret.result) =
                 IF ret.limit = None THEN Cardinality(S)
                 ELSE Min(ret.limit[1], Cardinality(S))
           /\ \A r \in S :
                 RecordTuple(r) \notin Yielded(ret.result) =>
                    \A i \in 1..Len(ret.result) :
                        ~StrLess(ret.result[i].config.thread_ts[1], r.thread_ts)

\* an empty filter with before "2" and limit 1 on records of both threads
C9_Witness ==
    /\ ret.op = "search" /\ ret.quiet /\ ret.filter = EmptyDict
    /\ ret.before = Some([thread_ts |-> Some(Id2)])
    /\ ret.limit = Some(1)
    /\ \E r \in table : r.thread_ts = Id2
    /\ \E r \in table, q \in table :
          r.thread_ts = Id1 /\ q.thread_ts = Id1 /\ r.thread_id /= q.thread_id
    /\ Len(ret.result) = 1

(***************************************************************************)
(* SpecConc: several threads call one SqliteSaver; a call is a sequence of *)
(* steps and the steps of different callers interleave.  A statement sent  *)
(* to SQLite is one step.  A caller of list or search takes the tuples to  *)
(* the end of the sequence, one turn of the generator's loop a step.       *)
(*   idle -> [acquire ->] setup_check -> [setup_exec -> setup_flag ->]     *)
(*        execute -> [commit -> release ->] [iterate ->] idle              *)
(***************************************************************************)
At(c, where) == pc[c] = where
Goto(c, where) == pc' = [pc EXCEPT ![c] = where]

\* put entered without waiting for the lock
BeginPutNoLock(c, config, checkpoint, metadata) ==
    /\ At(c, "idle")
    /\ nputs < MaxPuts
    /\ call' = [call EXCEPT ![c] = [op |-> "put", config |-> config,
                                    checkpoint |-> checkpoint, metadata |-> metadata]]
    /\ nputs' = nputs + 1
    /\ Goto(c, "setup_check")
    /\ UNCHANGED <<table, is_setup, ddl_runs, lock, ret, hist, conn, gen>>

\* a caller enters put: "with self.lock" comes first
BeginPut(c, config, checkpoint, metadata) ==
    /\ At(c, "idle")
    /\ nputs < MaxPuts
    /\ call' = [call EXCEPT ![c] = [op |-> "put", config |-> config,
                                    checkpoint |-> checkpoint, metadata |-> metadata]]
    /\ nputs' = nputs + 1
    /\ Goto(c, "acquire")
    /\ UNCHANGED <<table, is_setup, ddl_runs, lock, ret, hist, conn, gen>>

\* a caller enters get_tuple, list, search or setup: no lock is taken
BeginRead(c, op, config) ==
    /\ At(c, "idle")
    /\ call' = [call EXCEPT ![c] = [op |-> op, config |-> config]]
    /\ Goto(c, "setup_check")
    /\ UNCHANGED <<table, is_setup, ddl_runs, lock, ret, hist, nputs, conn, gen>>

\* a lock that is handed out while another caller holds it
AcquireUnguarded(c) ==
    /\ At(c, "acquire")
    /\ lock' = c
    /\ hist' = IF HasThreadId(call[c].config)
               THEN Recorded(call[c].config, call[c].checkpoint, call[c].metadata)
               ELSE hist
    /\ Goto(c, "setup_check")
    /\ UNCHANGED <<table, is_setup, ddl_runs, ret, nputs, call, conn, gen>>

\* self.lock.__enter__(); the history takes the puts in the order of the lock
Acquire(c) ==
    /\ At(c, "acquire")
    /\ lock = 0
    /\ lock' = c
    /\ hist' = IF HasThreadId(call[c].config)
               THEN Recorded(call[c].config, call[c].checkpoint, call[c].metadata)
               ELSE hist
    /\ Goto(c, "setup_check")
    /\ UNCHANGED <<table, is_setup, ddl_runs, ret, nputs, call, conn, gen>>

\* setup() returns: a direct call is over, cursor() goes on to the statement
LeaveSetup(c) ==
    IF call[c].op = "setup"
    THEN Goto(c, "idle") /\ ret' = [op |-> "setup"]
    ELSE Goto(c, "execute") /\ UNCHANGED ret

\* setup(): "if self.is_setup: return"
SetupCheck(c) ==
    /\ At(c, "setup_check")
    /\ IF is_setup
       THEN LeaveSetup(c)
       ELSE Goto(c, "setup_exec") /\ UNCHANGED ret
    /\ UNCHANGED <<table, is_setup, ddl_runs, lock, hist, nputs, call, conn, gen>>

\* setup(): self.conn.executescript(CREATE TABLE IF NOT EXISTS ...)
SetupExec(c) ==
    /\ At(c, "setup_exec")
    /\ ddl_runs' = ddl_runs + 1
    /\ Goto(c, "setup_flag")
    /\ UNCHANGED <<table, is_setup, lock, ret, hist, nputs, call, conn, gen>>

\* setup(): self.is_setup = True
SetupFlag(c) ==
    /\ At(c, "setup_flag")
    /\ is_setup' = TRUE
    /\ LeaveSetup(c)
    /\ UNCHANGED <<table, ddl_runs, lock, hist, nputs, call, conn, gen>>

\* the exception e is raised inside put's with-block
Raise(c, e) ==
    call' = [call EXCEPT ![c] = [op |-> "put", config |-> call[c].config,
                                 checkpoint |-> call[c].checkpoint,
                                 metadata |-> call[c].metadata, raised |-> e]]

\* a thread_id that defaults to "None" when the locator has none
InsertDefaultThread(c) ==
    /\ At(c, "execute")
    /\ call[c].op = "put"
    /\ table' = InsertOrReplace(table,
                     PutRow(IF HasThreadId(call[c].config) THEN call[c].config
                            ELSE Config("None", call[c].config.thread_ts),
                            call[c].checkpoint, call[c].metadata))
    /\ Goto(c, "commit")
    /\ UNCHANGED <<is_setup, ddl_runs, lock, ret, hist, nputs, call, conn, gen>>

\* the lock given back before the commit ("with self.cursor(), self.lock")
InsertReleasingLock(c) ==
    /\ At(c, "execute")
    /\ call[c].op = "put"
    /\ table' = IF HasThreadId(call[c].config)
                THEN InsertOrReplace(table, PutRow(call[c].config, call[c].checkpoint,
                                                   call[c].metadata))
                ELSE table
    /\ IF HasThreadId(call[c].config) THEN UNCHANGED call ELSE Raise(c, KeyError)
    /\ lock' = 0
    /\ Goto(c, "commit")
    /\ UNCHANGED <<is_setup, ddl_runs, ret, hist, nputs, conn, gen>>

\* put: cur.execute(INSERT OR REPLACE ...); a KeyError of its parameters
\* leaves the with-block before the statement runs
Insert(c) ==
    /\ At(c, "execute")
    /\ call[c].op = "put"
    /\ table' = IF HasThreadId(call[c].config)
                THEN InsertOrReplace(table, PutRow(call[c].config, call[c].checkpoint,
                                                   call[c].metadata))
                ELSE table
    /\ IF HasThreadId(call[c].config) THEN UNCHANGED call ELSE Raise(c, KeyError)
    /\ Goto(c, "commit")
    /\ UNCHANGED <<is_setup, ddl_runs, lock, ret, hist, nputs, conn, gen>>

\* put: cursor()'s finally: self.conn.commit(), cur.close()
Commit(c) ==
    /\ At(c, "commit")
    /\ Goto(c, "release")
    /\ UNCHANGED <<table, is_setup, ddl_runs, lock, ret, hist, nputs, call, conn, gen>>

\* an exception raised inside put's with-block, on its way to the caller
Raised(c) == "raised" \in DOMAIN call[c]

\* what put hands to its caller: the new config, or the exception
PutOutcome(c) ==
    IF Raised(c) THEN call[c].raised
    ELSE PutResult(call[c].config, call[c].checkpoint)

\* a lock given back on the normal return only (acquire() ... release()
\* without try/finally)
ReleaseOnReturn(c) ==
    /\ At(c, "release")
    /\ lock' = IF Raised(c) THEN lock ELSE 0
    /\ ret' = [op |-> "put", config |-> call[c].config,
               checkpoint |-> call[c].checkpoint, metadata |-> call[c].metadata,
               result |-> PutOutcome(c)]
    /\ Goto(c, "idle")
    /\ UNCHANGED <<table, is_setup, ddl_runs, hist, nputs, call, conn, gen>>

\* put: self.lock.__exit__(), then the return of the new config or the
\* exception going on to the caller
Release(c) ==
    /\ At(c, "release")
    /\ lock' = 0
    /\ ret' = [op |-> "put", config |-> call[c].config,
               checkpoint |-> call[c].checkpoint, metadata |-> call[c].metadata,
               result |-> PutOutcome(c)]
    /\ Goto(c, "idle")
    /\ UNCHANGED <<table, is_setup, ddl_runs, hist, nputs, call, conn, gen>>

\* get_tuple: the SELECT, fetchone and the tuple built from the row
Fetch(c) ==
    /\ At(c, "execute")
    /\ call[c].op = "get"
    /\ \E res \in GetTuple(table, call[c].config) :
          ret' = [op |-> call[c].op, config |-> call[c].config, result |-> res]
    /\ Goto(c, "idle")
    /\ UNCHANGED <<table, is_setup, ddl_runs, lock, hist, nputs, call, conn, gen>>

\* list, search: cur.execute(query, params); the caller goes on to take the
\* rows, or the error raised ends the call
Execute(c) ==
    /\ At(c, "execute")
    /\ call[c].op \in {"list", "search"}
    /\ \E o \in GenExecute(table, Created(call[c].op, call[c].config, EmptyDict,
                                          None, None)) :
          IF IsError(o)
          THEN /\ ret' = [op |-> call[c].op, config |-> call[c].config,
                          result |-> <<o>>]
               /\ Goto(c, "idle")
               /\ UNCHANGED call
          ELSE /\ call' = [call EXCEPT ![c] = [op |-> call[c].op,
                                               config |-> call[c].config, gen |-> o]]
               /\ Goto(c, "iterate")
               /\ UNCHANGED ret
    /\ UNCHANGED <<table, is_setup, ddl_runs, lock, hist, nputs, conn, gen>>

\* list, search: one turn of the loop over the cursor; the caller takes the
\* tuple and asks for the next, or the sequence has ended
IterNext(c) ==
    /\ At(c, "iterate")
    /\ \E o \in GenIterNext(table, call[c].gen) :
          IF o.kind = "end"
          THEN /\ ret' = [op |-> call[c].op, config |-> call[c].config,
                          result |-> o.result]
               /\ call' = [call EXCEPT ![c] = [op |-> call[c].op,
                                               config |-> call[c].config]]
               /\ Goto(c, "idle")
          ELSE /\ call' = [call EXCEPT ![c] = [op |-> call[c].op,
                                               config |-> call[c].config,
                                               gen |-> o.gen]]
               /\ UNCHANGED <<ret, pc>>
    /\ UNCHANGED <<table, is_setup, ddl_runs, lock, hist, nputs, conn, gen>>

ConcConfig == Config("1", None)
ConcPuts ==
    {<<ConcConfig, [id |-> i, data |-> "x"], EmptyDict>> : i \in {Id1, Id2}}
    \cup {<<Config("1", Some(Id1)), [id |-> Id2, data |-> "y"], MetaInput>>}
    \cup {<<NoThreadConfig, [id |-> Id1, data |-> "x"], EmptyDict>>}
ConcReads ==
    {<<op, ConcConfig>> : op \in {"get", "list", "search", "setup"}}
    \cup {<<op, NoThreadConfig>> : op \in {"get", "list"}}
    \cup {<<"get", Config("1", Some(Id2))>>}

NextConc ==
    \E c \in Callers :
        \/ \E a \in ConcPuts : BeginPut(c, a[1], a[2], a[3])
        \/ \E a \in ConcReads : BeginRead(c, a[1], a[2])
        \/ Acquire(c)
        \/ SetupCheck(c)
        \/ SetupExec(c)
        \/ SetupFlag(c)
        \/ Insert(c)
        \/ Commit(c)
        \/ Release(c)
        \/ Fetch(c)
        \/ Execute(c)
        \/ IterNext(c)

SpecConc == Init /\ [][NextConc]_vars

\* C10: under any interleaving of concurrent first calls of setup, direct or
\* through get, list, search or put, the schema-creation statement executes at
\* most once.
C10_SchemaCreatedAtMostOnce == ddl_runs <= 1

\* a caller between self.lock.__enter__() and self.lock.__exit__() of put
InPut(c) ==
    /\ call[c].op = "put"
    /\ pc[c] \in {"setup_check", "setup_exec", "setup_flag", "execute", "commit",
                  "release"}

\* a caller of put whose INSERT OR REPLACE has run and whose commit has not
InsertedNotCommitted(c) == call[c].op = "put" /\ pc[c] = "commit"

\* C11: put calls on one store are mutually exclusive: no two callers are both
\* between acquiring and releasing the lock, and the caller that is holds it.
C11_PutsMutuallyExclusive ==
    \A c \in Callers :
        InPut(c) => /\ lock = c
                    /\ \A d \in Callers : InPut(d) => d = c

\* one put between its insert and its commit, the other waiting for the lock
C11_Witness ==
    \E c \in Callers, d \in Callers :
        /\ c /= d
        /\ InsertedNotCommitted(c)
        /\ call[d].op = "put" /\ pc[d] = "acquire"

\* C12: no caller executes the schema-creation statement of setup while
\* another caller is in put between its insert and its commit, also when the
\* setup comes from a concurrent get, list or search.
C12_SchemaCreationNotDuringPut ==
    [][\A c \in Callers :
          (pc[c] = "setup_exec" /\ pc'[c] = "setup_flag") =>
              \A d \in Callers \ {c} : ~InsertedNotCommitted(d)]_vars

\* no put is between acquiring and releasing the lock
NoPutRunning == \A c \in Callers : ~InPut(c)

\* C13: writes are ordered by lock acquisition: once concurrent puts are over,
\* the record of the key of the put that acquired the lock last is the record
\* of that put's arguments, checkpoint, metadata and parent pointer together.
C13_LastAcquirerWins ==
    NoPutRunning =>
        \A t \in ThreadIds :
            hist.last[t] /= None =>
                LET l == hist.last[t][1]
                    row == PutRow(l.config, l.checkpoint, l.metadata)
                IN /\ row \in table
                   /\ \A r \in table : SameKey(r, row) => r = row

\* both callers have put to the key ("1", "2") with different arguments; the
\* later one found the other's record and the store holds the later one's
C13_Witness ==
    /\ NoPutRunning
    /\ \A c \in Callers :
          /\ pc[c] = "idle" /\ call[c].op = "put"
          /\ call[c].checkpoint.id = Id2
    /\ call[1].checkpoint /= call[2].checkpoint
    /\ nputs = 2
    /\ hist.replaced
    /\ hist.last["1"] /= None

(***************************************************************************)
(* SpecFrame: every operation on two threads, with parent pointers to      *)
(* smaller, equal and greater checkpoint ids                               *)
(***************************************************************************)
FrameIds == {Id1, Id2}
FrameParents == {None, Some(Id1), Some(Id2)}
FramePuts ==
    {<<Config(t, p), [id |-> i, data |-> "x"], EmptyDict>> :
        t \in ThreadIds, p \in FrameParents, i \in FrameIds}
    \cup {<<Config("1", None), [id |-> Id1, data |-> "y"], MetaInput>>}
FrameGets == {Config(t, ts) : t \in ThreadIds, ts \in {None, Some(Id1)}}

NextFrame ==
    \/ \E a \in FramePuts : PutOnly(a[1], a[2], a[3])
    \/ \E config \in FrameGets : Get(config)
    \/ \E config \in ThreadConfigs : ListCall(config, None, None)
    \/ SearchCall(MetaInput, None, None)
    \/ GenNext
    \/ Setup

SpecFrame == Init /\ [][NextFrame]_vars

\* every non-null parent pointer of tbl refers to a record of the same thread
\* with a strictly smaller checkpoint_id
ParentsFormForest(tbl) ==
    \A r \in tbl :
        r.parent_ts /= None =>
            \E q \in tbl : /\ q.thread_id = r.thread_id
                            /\ q.thread_ts = r.parent_ts[1]
                            /\ StrLess(q.thread_ts, r.thread_ts)

\* C14 as stated: after any sequence of put calls every non-null parent
\* pointer refers to a record of the same thread with a strictly smaller
\* checkpoint_id (no cycles, no self-parent).
C14_ParentsFormForest == ParentsFormForest(table)

\* a locator that names no parent or names a stored record of its thread that
\* is older than the checkpoint
LinealPut(tbl, config, checkpoint) ==
    \/ config.thread_ts = None
    \/ /\ StrLess(config.thread_ts[1], checkpoint.id)
       /\ \E q \in tbl : /\ q.thread_id = config.thread_id
                          /\ q.thread_ts = config.thread_ts[1]

\* C14 amended: a put whose locator has no checkpoint_id, or has the
\* checkpoint_id of a record stored for the same thread that is strictly
\* smaller than the id of the checkpoint put, keeps the parent pointers a
\* forest; get, list, search and setup keep them as they are.
C14_LinealPutsKeepForest ==
    [][(/\ ParentsFormForest(table)
        /\ nputs' = nputs + 1 => LinealPut(table, ret'.config, ret'.checkpoint))
       => ParentsFormForest(table')]_vars

\* a forest with an edge: the record "2" of thread "1" points to its record "1"
C14_Witness ==
    /\ ret.op = "put"
    /\ ret.config = Config("1", Some(Id1)) /\ ret.checkpoint.id = Id2
    /\ ParentsFormForest(table)
    /\ \E r \in table, q \in table :
          /\ r.thread_id = "1" /\ r.thread_ts = Id2 /\ r.parent_ts = Some(Id1)
          /\ q.thread_id = "1" /\ q.thread_ts = Id1

\* the keys of the stored records
Keys(tbl) == {<<r.thread_id, r.thread_ts>> : r \in tbl}

\* C15: a put to (T, C) leaves every record of another key unchanged, get,
\* list, search and setup leave all records unchanged, no key is ever removed,
\* and get and list of a thread other than T answer as before the put, also a
\* list of that thread that is being taken while the put runs.
C15_OnlySameKeyPutChanges ==
    [][/\ Keys(table) \subseteq Keys(table')
       /\ nputs' = nputs => table' = table
       /\ nputs' = nputs + 1 =>
             /\ \A r \in table :
                   r \in table' \/ (/\ r.thread_id = ret'.config.thread_id
                                     /\ r.thread_ts = ret'.checkpoint.id)
             /\ \A r \in table' :
                   r \in table \/ r = PutRow(ret'.config, ret'.checkpoint, ret'.metadata)
             /\ \A u \in ThreadIds \ {ret'.config.thread_id} :
                   /\ \A ts \in {None, Some(Id1), Some(Id2)} :
                         GetTuple(table', Config(u, ts)) = GetTuple(table, Config(u, ts))
                   /\ List(table', Config(u, None), None, None)
                         = List(table, Config(u, None), None, None)
             /\ (/\ gen.state = "open" /\ gen.op = "list"
                 /\ gen.config.thread_id /= ret'.config.thread_id) =>
                   GenIterNext(table', gen) = GenIterNext(table, gen)]_vars

\* a put has replaced the record of its key next to a record of the same
\* thread and a record with the same checkpoint_id in the other thread
C15_Witness ==
    /\ ret.op = "put" /\ ret.checkpoint = [id |-> Id1, data |-> "y"]
    /\ nputs = 3
    /\ Keys(table) = {<<"1", Id1>>, <<"1", Id2>>, <<"2", Id1>>}

\* a caller of get, list or put whose locator has no thread_id
FailingCall(c) ==
    /\ call[c].op \in {"get", "list", "put"}
    /\ ~HasThreadId(call[c].config)

\* C16: get, list and put with a locator without thread_id end with an error
\* instead of a result; no step of such a call changes the stored records,
\* and a put that fails has released the lock when it ends.
C16_NoThreadIdFails ==
    [][\A c \in Callers :
          (FailingCall(c) /\ pc[c] /= "idle" /\ pc'[c] /= pc[c]) =>
              /\ table' = table
              /\ pc'[c] = "idle" =>
                    /\ ret'.op = call[c].op
                    /\ ret'.config = call[c].config
                    /\ ret'.result = IF call[c].op = "list" THEN <<KeyError>>
                                                            ELSE KeyError
                    /\ call[c].op = "put" => lock' = 0]_vars

\* a put without thread_id has ended with the error, the lock is free and the
\* record stored before it is still the only one
C16_Witness ==
    /\ ret.op = "put" /\ ~HasThreadId(ret.config) /\ ret.result = KeyError
    /\ lock = 0
    /\ Cardinality(table) = 1
    /\ \A c \in Callers : pc[c] = "idle" /\ call[c].op = "put"
    /\ nputs = 2

(***************************************************************************)
(* SpecDecode: a store opened on a database that already holds rows, some  *)
(* of them with a payload the codec cannot read                            *)
(***************************************************************************)
\* a payload that is neither JSON text nor a pickle
BadBlob(v) == <<0, v, 0>>

GoodRow(t, i) == PutRow(Config(t, None), [id |-> i, data |-> "x"], EmptyDict)
BadCheckpointRow(t, i) ==
    [GoodRow(t, i) EXCEPT !.checkpoint = BadBlob([id |-> i, data |-> "x"])]
BadMetadataRow(t, i) ==
    [GoodRow(t, i) EXCEPT !.metadata = Some(BadBlob(EmptyDict))]

DecodeKeys == {<<"1", Id1>>, <<"1", Id10>>, <<"1", Id2>>, <<"2", Id1>>}
\* a row written by an earlier version: its metadata is a pickle
PickledMetadataRow(t, i) ==
    [GoodRow(t, i) EXCEPT !.metadata = Some(<<128, EmptyDict, 46>>)]

\* a row whose metadata is the JSON text of {"source": "input"} and a NUL
\* byte after it: JSON text for the engine, which reads up to the NUL, and
\* not for the codec
NulMetadataRow(t, i) ==
    [GoodRow(t, i) EXCEPT !.metadata = Some(<<123, MetaInput, 0>>)]

DecodeRows ==
    UNION {{GoodRow(k[1], k[2]), BadCheckpointRow(k[1], k[2]),
            BadMetadataRow(k[1], k[2])} : k \in DecodeKeys}
    \cup {PickledMetadataRow("2", Id1), NulMetadataRow("1", Id2)}
DecodeTables ==
    {tbl \in SUBSET DecodeRows :
        \A r \in tbl, q \in tbl : SameKey(r, q) => r = q}

\* __init__ on a connection to an existing database
InitDecode ==
    /\ table \in DecodeTables
    /\ is_setup = FALSE
    /\ ddl_runs = 0
    /\ lock = 0
    /\ ret = [op |-> "none"]
    /\ hist = NoPuts
    /\ nputs = 0
    /\ pc = [c \in Callers |-> "idle"]
    /\ call = [c \in Callers |-> [op |-> "none"]]
    /\ conn = "open"
    /\ gen = NoGen

DecodeLimits == {None, Some(2)}

NextDecode ==
    \/ \E t \in ThreadIds :
          PutOnly(Config(t, None), [id |-> Id1, data |-> "y"], EmptyDict)
    \/ \E config \in ThreadConfigs, limit \in DecodeLimits :
          ListCall(config, None, limit)
    \/ \E limit \in DecodeLimits : SearchCall(EmptyDict, None, limit)
    \/ SearchCall(MetaInput, None, None)
    \/ GenNext
    \/ \E config \in ThreadConfigs : Get(config)

SpecDecode == InitDecode /\ [][NextDecode]_vars

\* the compact JSON encoding of a list or dict
Compact(x) == TextOf(JsonDumps(x, ",", ":"))

\* the value x of a metadata field meets the filter value v: a number or
\* boolean by its numeric value, a string by its characters, a list or dict
\* by its compact JSON encoding, which a string with the same characters
\* meets as well
Meets(x, v) ==
    CASE PyNumber(v) -> PyNumber(x) /\ PyScalarEq(x, v)
      [] v.kind = "str" ->
            \/ x.kind = "str" /\ x.s = v.s
            \/ x.kind \in {"list", "dict"} /\ Compact(x) = v.s
      [] v.kind \in {"list", "dict"} ->
            \/ x.kind \in {"list", "dict"} /\ Compact(x) = Compact(v)
            \/ x.kind = "str" /\ x.s = Compact(v)

\* every pair of the filter is met, for keys that are plain names: a null
\* filter value by a document that holds null for the key or lacks the key,
\* another value by the value the document holds for the key
AgreesWith(md, f) ==
    \A i \in 1..Len(f) :
        IF f[i].v.kind = "null"
        THEN ~DictHas(md, f[i].k) \/ DictGet(md, f[i].k).kind = "null"
        ELSE DictHas(md, f[i].k) /\ Meets(DictGet(md, f[i].k), f[i].v)

\* the rows the query of the list or search recorded in r selects from tbl
QueriedRows(tbl, r) ==
    IF r.op = "list" THEN {q \in tbl : q.thread_id = r.config.thread_id}
    ELSE {q \in tbl : AgreesWith(MetadataOf(q), r.filter)}

\* the query of the search recorded in r fails on tbl: it has a filter and a
\* row whose metadata the engine cannot read as JSON text
QueryFails(tbl, r) ==
    /\ r.op = "search" /\ r.filter /= EmptyDict
    /\ \E q \in tbl : MalformedJson(q.metadata)

\* res is what a sequence over the rows s gives: a tuple for each row up to the
\* first row that does not decode, then the decode error and nothing more, or
\* a tuple for each row when all decode
AbortsAtFirstBadRow(res, s) ==
    LET bad == {k \in 1..Len(s) : RowRaises(s[k])}
    IN IF bad = {}
       THEN /\ Len(res) = Len(s)
            /\ \A i \in 1..Len(s) : res[i] = TupleOfRow(s[i])
       ELSE LET k == CHOOSE k \in bad : \A j \in bad : k <= j
            IN /\ Len(res) = k
               /\ \A i \in 1..(k - 1) : res[i] = TupleOfRow(s[i])
               /\ res[k] = DecodeError

\* C17: a list or search that meets a row that does not decode yields the
\* tuples of the rows before it in descending order, then ends with the decode
\* error: the row is not skipped, no later row is yielded, and the stored
\* records are unchanged.  (Read for a sequence taken while no put runs; a
\* search whose query fails decodes no row and ends with the engine's error.)
C17_DecodeErrorAborts ==
    [][(ret'.op \in {"list", "search"} /\ nputs' = nputs /\ ret' /= ret) =>
          /\ table' = table
          /\ IF QueryFails(table, ret')
             THEN ret'.result = <<OperationalError>>
             ELSE ret'.quiet =>
                    \E s \in OrderByTsDesc(QueriedRows(table, ret')) :
                        AbortsAtFirstBadRow(ret'.result,
                                            ApplyLimit(s, ret'.limit))]_vars

\* list of thread "1" holding "2", "10" and "1", where "10" does not decode:
\* the tuple of "2", then the error
C17_Witness ==
    /\ ret.op = "list" /\ ret.quiet /\ ret.config.thread_id = "1" /\ ret.limit = None
    /\ {GoodRow("1", Id2), BadCheckpointRow("1", Id10), GoodRow("1", Id1)}
          \subseteq table
    /\ Len(ret.result) = 2
    /\ ret.result[1] = TupleOfRow(GoodRow("1", Id2))
    /\ ret.result[2] = DecodeError

(***************************************************************************)
(* SpecScope: the store used as a context manager, "with saver: body".     *)
(* The with statement calls __exit__ when the body completes, returns or   *)
(* raises, and lets an exception of the body go on unless __exit__ returns *)
(* a true value.                                                           *)
(***************************************************************************)
\* faulty variant: the connection is closed only when the body did not raise
ExitClosingOnSuccess(raised) ==
    [conn |-> IF raised THEN "open" ELSE "closed", result |-> None]

\* __exit__: "return self.conn.close()"; close() returns None
Exit(raised) == [conn |-> "closed", result |-> None]

\* bool(v) of a Python value: None, False, 0, 0.0, "" and the empty list and
\* dict are false
Truthy(v) ==
    CASE v.kind = "null" -> FALSE
      [] v.kind \in {"bool", "int", "float"} -> v.n /= 0
      [] v.kind = "str" -> v.s /= ""
      [] v.kind \in {"list", "dict"} -> v.items /= <<>>

\* truthiness of the value __exit__ returns, None or a value
TruthyExit(o) == o /= None /\ Truthy(o[1])

\* the number of "with saver:" scopes the caller c is inside of
Depth(c) == IF call[c].op = "with" THEN call[c].depth ELSE 0

\* how deep the scopes of a caller are nested at most
MaxDepth == 2

\* __enter__: "return self", whatever the state of the store: a first scope,
\* a scope inside a scope, a scope after one was left and the connection is
\* closed
Enter(c) ==
    /\ Depth(c) < MaxDepth
    /\ call' = [call EXCEPT ![c] = [op |-> "with", depth |-> Depth(c) + 1]]
    /\ Goto(c, "body")
    /\ UNCHANGED <<table, is_setup, ddl_runs, lock, ret, hist, nputs, conn, gen>>

\* the body of the innermost scope ends: how is "completes", "returns" or
\* "raises"; the caller is in the body of the scope around it, or has left
Leave(c, how) ==
    /\ At(c, "body")
    /\ conn' = Exit(how = "raises").conn
    /\ ret' = [op |-> "with", how |-> how,
               propagated |-> how = "raises" /\ ~TruthyExit(Exit(how = "raises").result)]
    /\ call' = [call EXCEPT ![c] = [op |-> "with", depth |-> Depth(c) - 1]]
    /\ Goto(c, IF Depth(c) = 1 THEN "left" ELSE "body")
    /\ UNCHANGED <<table, is_setup, ddl_runs, lock, hist, nputs, gen>>

ScopePuts ==
    {<<Config(t, None), [id |-> i, data |-> "x"], EmptyDict>> :
        t \in ThreadIds, i \in {Id1, Id2}}

NextScope ==
    \/ Enter(1)
    \/ \E a \in ScopePuts : At(1, "body") /\ PutOnly(a[1], a[2], a[3])
    \/ \E config \in ThreadConfigs : At(1, "body") /\ Get(config)
    \/ \E how \in {"completes", "returns", "raises"} : Leave(1, how)

SpecScope == Init /\ [][NextScope]_vars

\* C18: whenever a scope of the store is left, on normal completion, on an
\* early return or on an exception of the body, the connection is closed, and
\* an exception of the body, and nothing else, goes on to the caller; this
\* for a first scope, a scope inside another and a scope entered again; and
\* the connection stays closed once a scope was left.
C18_ScopeExitCloses ==
    /\ [][\A c \in Callers :
            (call[c].op = "with" /\ call'[c].depth < call[c].depth) =>
                /\ conn' = "closed"
                /\ ret'.op = "with"
                /\ ret'.propagated <=> ret'.how = "raises"]_vars
    /\ [](pc[1] = "left" => conn = "closed")
    /\ [][conn = "closed" => conn' = "closed"]_vars

\* the inner of two nested scopes was left by an exception after a put in
\* its body, the outer scope goes on
C18_Witness ==
    /\ pc[1] = "body" /\ Depth(1) = 1
    /\ ret.op = "with" /\ ret.how = "raises" /\ ret.propagated
    /\ conn = "closed"
    /\ table /= {}

(***************************************************************************)
(* SpecCodec: JsonPlusSerializerCompat.loads on byte strings of every      *)
(* shape, and on what the primary serializer writes                        *)
(***************************************************************************)
CodecValues == {[id |-> i, data |-> d] : i \in Ids, d \in {"x", "y"}}
CodecEnds == {128, 123, 125, 46, 0, 32}
CodecBytes ==
    {<<>>, <<128>>, <<46>>, <<128, 46>>, <<49>>, <<49, 0>>, <<34, 34>>}
    \cup {<<f, v, l>> : f \in CodecEnds, v \in CodecValues, l \in CodecEnds}

\* serde.loads(data)
LoadsCall(data) ==
    /\ ret' = [op |-> "loads", data |-> data, result |-> Loads(data)]
    /\ UNCHANGED <<table, is_setup, ddl_runs, lock, hist, nputs, pc, call, conn, gen>>

\* serde.loads(serde.dumps(value))
DumpsLoadsCall(value) ==
    /\ ret' = [op |-> "dumps_loads", data |-> Dumps(value),
               result |-> Loads(Dumps(value))]
    /\ UNCHANGED <<table, is_setup, ddl_runs, lock, hist, nputs, pc, call, conn, gen>>

NextCodec ==
    \/ \E data \in CodecBytes : LoadsCall(data)
    \/ \E value \in CodecValues : DumpsLoadsCall(value)

SpecCodec == Init /\ [][NextCodec]_vars

\* the payload's first byte is 0x80 and its last byte is 0x2E
LegacySignature(data) ==
    Len(data) > 0 /\ data[1] = 128 /\ data[Len(data)] = 46

\* C19: loads takes the legacy pickle path exactly when the payload's first
\* byte is 0x80 and its last byte is 0x2E, the primary path otherwise, also
\* for the empty payload; what the primary serializer wrote never takes the
\* legacy path.
C19_LegacyPathBySignature ==
    /\ ret.op \in {"loads", "dumps_loads"} =>
          /\ LegacySignature(ret.data) <=> ret.result = PickleLoads(ret.data)
          /\ ~LegacySignature(ret.data) <=> ret.result = PrimaryLoads(ret.data)
    /\ ret.op = "dumps_loads" => ret.result = PrimaryLoads(ret.data)

\* a payload with the legacy signature came back through pickle
C19_Witness ==
    /\ ret.op = "loads"
    /\ ret.data = <<128, [id |-> Id1, data |-> "x"], 46>>
    /\ ret.result = [id |-> Id1, data |-> "x"]

(***************************************************************************)
(* SpecWhere: search_where on filters of up to two keys, with and without  *)
(* a before bound                                                          *)
(***************************************************************************)
WhereKeys == {"source", "step", "writes"}
\* keys that are not plain names: a ? in the key, and a key whose apostrophes
\* end the string literal of the path and begin another
WhereOddKeys == {"a?b", "a' = ? OR '1"}
WhereScalars == {JNull, JStr("input"), JInt(1)}
WherePairs ==
    {[k |-> k, v |-> v] : k \in WhereKeys, v \in WhereScalars}
    \cup {[k |-> k, v |-> JInt(1)] : k \in WhereOddKeys}
WhereFilters ==
    {EmptyDict}
    \cup {<<a>> : a \in WherePairs}
    \cup {f \in WherePairs \X WherePairs : f[1].k /= f[2].k}

\* search_where(metadata_filter, before)
SearchWhereCall(metadata_filter, before) ==
    /\ ret' = [op |-> "search_where", filter |-> metadata_filter,
               before |-> before, result |-> SearchWhere(metadata_filter, before)]
    /\ UNCHANGED <<table, is_setup, ddl_runs, lock, hist, nputs, pc, call, conn, gen>>

NextWhere ==
    \E f \in WhereFilters, b \in SearchBefores : SearchWhereCall(f, b)

SpecWhere == Init /\ [][NextWhere]_vars

\* C20 (refuted): search_where returns WHERE, one json_extract predicate per
\* filter key in the filter's order, then thread_ts < ? when before is given,
\* with AND between the predicates; as many parameters as the clause has ?
\* placeholders, the ? of the i-th predicate being the i-th placeholder of the
\* clause and the i-th parameter the value of the i-th key, the before value
\* last; the empty clause without parameters for an empty filter and no
\* before.  A key is written into the clause and can bring a ? of its own.
C20_SearchWhereShape ==
    ret.op = "search_where" =>
        LET f == ret.filter
            w == ret.result.where
            p == ret.result.params
            n == Len(f)
            m == IF ret.before = None THEN n ELSE n + 1
        IN IF m = 0
           THEN Len(w) = 0 /\ Len(p) = 0 /\ WhereText(w) = ""
           ELSE /\ Len(w) = 2 * m
                /\ w[1] = TokWhere
                /\ \A i \in 1..n :
                      /\ w[2 * i].t = "json_extract"
                      /\ w[2 * i].key = f[i].k
                      /\ p[i] = f[i].v
                /\ \A i \in 1..(m - 1) : w[2 * i + 1] = TokAnd
                /\ ret.before /= None =>
                      /\ w[2 * m] = TokBefore
                      /\ p[m] = ret.before[1].thread_ts
                /\ Len(p) = m
                /\ \A i \in 1..m :
                      CountPlaceholders(WhereText(SubSeq(w, 1, 2 * i)), FALSE) = i
                /\ CountPlaceholders(WhereText(w), FALSE) = Len(p)

(***************************************************************************)
(* SpecValue: search_where on filters of one key whose value is of every   *)
(* type the query builder tells apart                                      *)
(***************************************************************************)
ValueItems == {JInt(1), JStr("a"), JStr("a\",\"b"), JFloat(-5)}
ValueLists ==
    {JList(<<>>), JList(<<JList(<<JInt(1)>>), JDict(<<[k |-> "a", v |-> JNull]>>)>>)}
    \cup {JList(<<x>>) : x \in ValueItems}
    \cup {JList(<<x, y>>) : x \in ValueItems, y \in ValueItems}
ValueDicts ==
    {JDict(<<>>)}
    \cup {JDict(<<[k |-> k, v |-> x]>>) : k \in {"a", "b"}, x \in ValueItems}
    \cup {JDict(<<[k |-> "a", v |-> x], [k |-> "b", v |-> y]>>) :
             x \in ValueItems, y \in ValueItems}
FilterValues ==
    {JNull, JBool(TRUE), JBool(FALSE)}
    \cup {JStr(x) : x \in {"input", "loop", "", "a\"b"}}
    \cup {JInt(n) : n \in -1..2}
    \cup {JFloat(n) : n \in {0, 5, 15, -5, -15}}
    \cup ValueLists \cup ValueDicts

NextValue ==
    \E k \in WhereKeys, v \in FilterValues, b \in SearchBefores :
        SearchWhereCall(<<[k |-> k, v |-> v]>>, b)

SpecValue == Init /\ [][NextValue]_vars

\* no token of JSON text is a separator followed by a space
NoSpaceAfterSeparators(text) ==
    \A i \in 1..Len(text) : text[i].tok \notin {", ", ": "}

\* C21: the operator and the bound parameter follow the type of the filter
\* value: IS ? with null for null; = ? with the value for a string, an integer
\* or a float; = ? with the integer 1 or 0 for a boolean; = ? with the compact
\* JSON text for an object or array; and the predicate holds the key and the
\* operator only, the value is bound.
C21_OperatorAndParameterByType ==
    ret.op = "search_where" /\ Len(ret.filter) = 1 =>
        LET v == ret.filter[1].v
            tok == ret.result.where[2]
            param == ret.result.params[1]
        IN /\ tok = TokJson(ret.filter[1].k, tok.op)
           /\ v.kind = "null" => tok.op = "IS ?" /\ SqlBind(param) = JNull
           /\ v.kind \in {"str", "int", "float"} =>
                 tok.op = "= ?" /\ SqlBind(param) = v
           /\ v.kind = "bool" =>
                 /\ tok.op = "= ?"
                 /\ SqlBind(param) = JInt(IF v = JBool(TRUE) THEN 1 ELSE 0)
           /\ v.kind \in {"list", "dict"} =>
                 /\ tok.op = "= ?"
                 /\ param.kind = "json_text"
                 /\ param.text = JsonDumps(v, ",", ":")
                 /\ NoSpaceAfterSeparators(param.text)
                 /\ SqlBind(param) = JStr(TextOf(param.text))

\* a filter whose value is a dict of two keys, bound as its compact JSON text
C21_Witness ==
    /\ ret.op = "search_where" /\ Len(ret.filter) = 1
    /\ ret.filter[1].v = JDict(<<[k |-> "a", v |-> JInt(1)], [k |-> "b", v |-> JStr("a")]>>)
    /\ ret.result.params[1].kind = "json_text"
    /\ Len(ret.result.params[1].text) = 9
    /\ SqlBind(ret.result.params[1]) = JStr("{\"a\":1,\"b\":\"a\"}")

\* caller c has returned from a put to the key (t, i) and begun nothing since
ReturnedFromPut(c, t, i) ==
    /\ pc[c] = "idle" /\ call[c].op = "put"
    /\ HasThreadId(call[c].config)
    /\ call[c].config.thread_id = t /\ call[c].checkpoint.id = i

\* caller d runs the SELECT of get_tuple for the key (t, i) in this step
FetchesKey(d, t, i) ==
    /\ pc[d] = "execute" /\ pc'[d] = "idle"
    /\ call[d].op = "get" /\ call[d].config = Config(t, Some(i))

\* C22: within a put the order is acquire lock, ensure schema, insert or
\* replace, commit, release lock, return: an insert that is not committed
\* exists only under the lock of its put, the lock is acquired only when no
\* insert is uncommitted, and a get that reads after a put to its key has
\* returned finds the record of that key, with the checkpoint of that put
\* when no other put acquired the lock after it.
C22_CommitBeforeRelease ==
    [][\A c \in Callers :
          /\ (pc'[c] = "commit" /\ call'[c].op = "put") => lock' = c
          /\ (lock /= c /\ lock' = c) =>
                /\ pc[c] = "acquire" /\ pc'[c] = "setup_check"
                /\ \A d \in Callers : ~InsertedNotCommitted(d)
          /\ (pc[c] = "execute" /\ pc'[c] = "commit") =>
                lock = c /\ is_setup /\ ddl_runs >= 1
          /\ (pc[c] = "commit" /\ pc'[c] /= "commit") =>
                pc'[c] = "release" /\ lock' = c
          /\ (lock = c /\ lock' /= c) =>
                /\ pc[c] = "release" /\ pc'[c] = "idle"
                /\ lock' = 0
                /\ ret'.op = "put" /\ ret'.config = call[c].config
          /\ (pc[c] = "idle" /\ call[c].op = "put") =>
                \A d \in Callers, t \in ThreadIds, i \in Ids :
                    (ReturnedFromPut(c, t, i) /\ FetchesKey(d, t, i)) =>
                        /\ ret'.result /= None
                        /\ ret'.result[1].checkpoint.id = i
                        /\ hist.last[t][1].checkpoint = call[c].checkpoint =>
                              ret'.result[1].checkpoint = call[c].checkpoint]_vars

\* a get of ("1", "2") has read the record of the put that the other caller
\* returned from
C22_Witness ==
    /\ ret.op = "get" /\ ret.config = Config("1", Some(Id2))
    /\ ret.result /= None
    /\ ret.result[1].checkpoint = [id |-> Id2, data |-> "y"]
    /\ ReturnedFromPut(1, "1", Id2)
    /\ call[1].checkpoint.data = "y"
    /\ pc[2] = "idle" /\ call[2].op = "get"


(***************************************************************************)
(* put under failing statements: the lock and the progress of callers      *)
(***************************************************************************)
\* what self.serde.dumps raises for a value it cannot serialise
SerdeError == [error |-> "SerdeError"]

\* a caller enters put: "with self.lock" comes first; callers may put again
\* and again
CallPut(c, config, checkpoint, metadata) ==
    /\ At(c, "idle")
    /\ call' = [call EXCEPT ![c] = [op |-> "put", config |-> config,
                                    checkpoint |-> checkpoint, metadata |-> metadata]]
    /\ Goto(c, "acquire")
    /\ UNCHANGED <<table, is_setup, ddl_runs, lock, ret, hist, nputs, conn, gen>>

\* put: executescript raises in the setup() that cursor() calls; the exception
\* leaves self.cursor().__enter__ before the try, and then the lock
SetupFails(c) ==
    /\ At(c, "setup_exec")
    /\ call[c].op = "put"
    /\ Raise(c, OperationalError)
    /\ Goto(c, "release")
    /\ UNCHANGED <<table, is_setup, ddl_runs, lock, ret, hist, nputs, conn, gen>>

\* put: self.serde.dumps or cur.execute raises; cursor()'s finally follows
InsertFails(c, e) ==
    /\ At(c, "execute")
    /\ call[c].op = "put"
    /\ HasThreadId(call[c].config)
    /\ Raise(c, e)
    /\ Goto(c, "commit")
    /\ UNCHANGED <<table, is_setup, ddl_runs, lock, ret, hist, nputs, conn, gen>>

\* put: self.conn.commit() raises in cursor()'s finally
CommitFails(c) ==
    /\ At(c, "commit")
    /\ Raise(c, OperationalError)
    /\ Goto(c, "release")
    /\ UNCHANGED <<table, is_setup, ddl_runs, lock, ret, hist, nputs, conn, gen>>

LockPuts ==
    {<<ConcConfig, [id |-> Id1, data |-> "x"], EmptyDict>>,
     <<NoThreadConfig, [id |-> Id1, data |-> "x"], EmptyDict>>}
LockReads == {<<"get", ConcConfig>>, <<"setup", ConcConfig>>}

\* the steps of a call that is under way, the wait for the lock apart
Run(c) ==
    \/ SetupCheck(c)
    \/ SetupExec(c)
    \/ SetupFails(c)
    \/ SetupFlag(c)
    \/ Insert(c)
    \/ \E e \in {SerdeError, OperationalError} : InsertFails(c, e)
    \/ Commit(c)
    \/ CommitFails(c)
    \/ Release(c)
    \/ Fetch(c)

NextLock ==
    \E c \in Callers :
        \/ \E a \in LockPuts : CallPut(c, a[1], a[2], a[3])
        \/ \E a \in LockReads : BeginRead(c, a[1], a[2])
        \/ Acquire(c)
        \/ Run(c)

\* a thread under way goes on running, and a lock that is free while threads
\* wait for it is taken by one of them.  threading.Lock hands the lock to the
\* waiters in no order: a thread that finds the lock taken each time it is
\* scheduled goes on waiting.
SpecLock ==
    /\ Init /\ [][NextLock]_vars
    /\ \A c \in Callers : WF_vars(Run(c)) /\ WF_vars(Acquire(c))

PutEnds(c) == call[c].op = "put" /\ pc[c] /= "idle" /\ pc'[c] = "idle"

\* C23 as stated: the lock is released whenever a put ends, by return or by
\* exception, and it is never held while its holder is not inside put; under
\* fair scheduling every caller of put gets the lock and then leaves put.
C23_LockReleasedAndPutCompletes ==
    /\ [](lock /= 0 => InPut(lock))
    /\ [][\A c \in Callers : PutEnds(c) => lock = c /\ lock' = 0]_vars
    /\ \A c \in Callers : (pc[c] = "acquire") ~> (lock = c)
    /\ \A c \in Callers : (lock = c) ~> (lock /= c /\ pc[c] = "idle")

\* C23 amended: the lock is released whenever a put ends, by return or by
\* exception, and it is never held while its holder is not inside put; under
\* fair scheduling every caller that has the lock leaves put and gives the
\* lock back, a free lock that a caller waits for is taken, and a caller
\* that waits for ever does so only while other callers take the lock again
\* and again.
C23_LockReleasedNoDeadlock ==
    /\ [](lock /= 0 => InPut(lock))
    /\ [][\A c \in Callers : PutEnds(c) => lock = c /\ lock' = 0]_vars
    /\ \A c \in Callers : (lock = c) ~> (lock /= c /\ pc[c] = "idle")
    /\ \A c \in Callers : (pc[c] = "acquire" /\ lock = 0) ~> (lock /= 0)
    /\ \A c \in Callers :
          <>[](pc[c] = "acquire") => []<>(lock \notin {0, c})

C23_Witness ==
    /\ ret.op = "put" /\ ret.result = OperationalError
    /\ lock = 2 /\ pc[1] = "idle" /\ call[1].op = "put" /\ Raised(1)
    /\ call[2].op = "put" /\ pc[2] = "setup_check"


(***************************************************************************)
(* SpecLatest: get_tuple without a checkpoint id against list              *)
(***************************************************************************)
\* (config, checkpoint id, payload) of the puts: thread "1" with and without
\* a parent, in any order of ids and with either payload; thread "2" beside it
LatestPuts ==
    {<<Config("1", p), i, d>> :
        p \in {None, Some(Id1)}, i \in {Id10, Id2}, d \in Payloads}
    \cup {<<Config("2", None), i, <<"x", EmptyDict>>>> : i \in {Id1, Id2}}

NextLatest ==
    \/ \E a \in LatestPuts : Put(a[1], [id |-> a[2], data |-> a[3][1]], a[3][2])
    \/ \E config \in ThreadConfigs : Get(config)
    \/ \E config \in ThreadConfigs : ListCall(config, None, None)
    \/ GenNext

SpecLatest == Init /\ [][NextLatest]_vars

\* the first tuple of a result of list, as an Optional
FirstYielded(res) == SubSeq(res, 1, Min(1, Len(res)))

\* the first tuples list({thread_id: t}) may yield: the tuple of the row its
\* statement stands on after the first next()
FirstsOfList(t) ==
    {IF o.cur = None THEN None ELSE Some(TupleOfRow(o.cur[1])) :
        o \in GenExecute(table, Created("list", Config(t, None), EmptyDict,
                                        None, None))}

\* C24: for every thread, get_tuple without a checkpoint id returns the first
\* tuple that list yields for the thread, and None where list yields nothing;
\* that tuple holds the greatest checkpoint id of the thread, whatever the
\* order of the puts.
C24_GetIsFirstOfList ==
    /\ \A t \in ThreadIds :
          /\ GetTuple(table, Config(t, None)) = FirstsOfList(t)
          /\ \A g \in GetTuple(table, Config(t, None)) :
                /\ g = None <=> ThreadRows(t) = {}
                /\ g /= None => IsGreatest(t, g[1].checkpoint.id)
    /\ (ret.op = "get" /\ ret.config.thread_ts = None) =>
          ret.result \in FirstsOfList(ret.config.thread_id)
    /\ (ret.op = "list" /\ ret.quiet) =>
          FirstYielded(ret.result) \in GetTuple(table, ret.config)

\* the thread's latest put carried a smaller id than an earlier one, and get
\* returns the earlier one, which is also the first of list
C24_Witness ==
    /\ ret.op = "get" /\ ret.config = Config("1", None)
    /\ ~hist.mono["1"]
    /\ hist.last["1"][1].checkpoint = [id |-> Id10, data |-> "y"]
    /\ ret.result /= None
    /\ ret.result[1].checkpoint = [id |-> Id2, data |-> "x"]
    /\ ret.result \in FirstsOfList("1")

====
